---- MODULE Spec2Model ----
(***************************************************************************)
(* A model of cloud-memstore-proxy: the RESP wire codec, the redirect      *)
(* rewriter, the proxy manager and the per-connection pipeline.            *)
(*                                                                         *)
(* Byte strings are sequences of one-character strings, so that length     *)
(* prefixes, terminators, prefixes and whitespace splitting are computed   *)
(* as the Go code computes them.                                           *)
(***************************************************************************)
EXTENDS Integers, Sequences, FiniteSets, TLC

VARIABLES
    \* --- codec harness: one RESP value taken through the codec functions
    cpc,        \* "idle" | "new" | "isredirect" | "rewritten" | "serialized" | "read"
    cv,         \* the RESPValue under test
    cmap,       \* the node map handed to RewriteRedirectError
    cres,       \* bool result of IsRedirectError / RewriteRedirectError
    cout,       \* the RESPValue after RewriteRedirectError mutated it
    cwire,      \* Serialize(cv)
    cread,      \* result of ReadValue over cwire
    \* --- topology harness: CLUSTER NODES output through the parser and filter
    tpc,        \* "idle" | "new" | "parsed" | "filtered"
    tinput,     \* the lines of the output, each with the node it describes
    tself,      \* the address of the queried node
    tnodes,     \* result of parseClusterNodes
    tunique,    \* result of FilterUniqueNodes
    \* --- Manager
    mAuthPassword,      \* Manager.authPassword ("" is <<>>)
    mAuthorizationMode, \* Manager.authorizationMode
    mTokenSource,       \* Manager.tokenSource # nil
    mTlsConfig,         \* Manager.tlsConfig (nil or the configuration)
    mIsClusterMode,     \* Manager.isClusterMode
    mNodeMap,           \* Manager.nodeMap, the one map every Proxy refers to
    proxies,            \* Manager.proxies, each with the fields AddProxy copied
    disc,               \* the running DiscoverAndAddClusterNodes call
    mu,                 \* Manager.mu: "free" or the operation holding it
    mshut,              \* the Manager.Shutdown call
    callers,            \* the calls of Proxy.Shutdown; caller 0 is Manager.Shutdown
    main,               \* main's loop over the discovered endpoints
    \* --- one accepted client connection and its handleConnection goroutine
    conn,
    \* --- one Proxy with its accept loop and the pipelines of its clients
    inst,       \* listener, shutdown channel, WaitGroup, accept loop, Shutdown call
    pipes,      \* the handleConnection goroutines by connection
    adder       \* an AddProxy call for another endpoint, step by step

codecVars == <<cpc, cv, cmap, cres, cout, cwire, cread>>

topoVars == <<tpc, tinput, tself, tnodes, tunique>>

harnessVars == <<codecVars, topoVars>>

shutVars == <<mu, mshut, callers>>

mgrVars == <<mAuthPassword, mAuthorizationMode, mTokenSource, mTlsConfig,
             mIsClusterMode, mNodeMap, proxies, disc, main, shutVars>>

lifeVars == <<inst, pipes, adder>>

vars == <<harnessVars, mgrVars, conn, lifeVars>>

(***************************************************************************)
(* Characters and strings                                                  *)
(***************************************************************************)
CRLF == <<"\r", "\n">>

DigitChars == <<"0", "1", "2", "3", "4", "5", "6", "7", "8", "9">>

IsDigit(c) == \E i \in 1..10 : DigitChars[i] = c

DigitVal(c) == (CHOOSE i \in 1..10 : DigitChars[i] = c) - 1

\* unicode.IsSpace restricted to the ASCII bytes a TLA+ string can spell
\* (strings.Fields also splits on \v, U+0085 and U+00A0).
IsSpace(c) == c \in {" ", "\t", "\n", "\r", "\f"}

Min(a, b) == IF a < b THEN a ELSE b

IsPrefix(p, s) == Len(p) <= Len(s) /\ SubSeq(s, 1, Len(p)) = p

RECURSIVE Flatten(_)
Flatten(ss) == IF ss = <<>> THEN <<>> ELSE Head(ss) \o Flatten(Tail(ss))

HasPrefix(s, p) == Len(s) >= Len(p) /\ SubSeq(s, 1, Len(p)) = p

RECURSIVE NatToStr(_)
NatToStr(n) ==
    IF n < 10 THEN <<DigitChars[n + 1]>>
    ELSE NatToStr(n \div 10) \o <<DigitChars[(n % 10) + 1]>>

\* strconv.Itoa / strconv.FormatInt(n, 10) / fmt's %d
Itoa(n) == IF n < 0 THEN <<"-">> \o NatToStr(0 - n) ELSE NatToStr(n)

RECURSIVE DigitsToNat(_, _)
DigitsToNat(s, acc) ==
    IF s = <<>> THEN acc
    ELSE DigitsToNat(Tail(s), acc * 10 + DigitVal(Head(s)))

\* strconv.ParseInt(s, 10, 64) and strconv.Atoi(s): an optional sign, then
\* one or more decimal digits and nothing else.  The 64-bit range check is
\* not modelled: the model's digit strings stay far below it.
ParseInt(s) ==
    LET signed == s # <<>> /\ Head(s) \in {"+", "-"}
        digits == IF signed THEN Tail(s) ELSE s
    IN  IF digits = <<>> \/ \E i \in 1..Len(digits) : ~IsDigit(digits[i])
        THEN [ok |-> FALSE, val |-> 0]
        ELSE [ok |-> TRUE,
              val |-> IF signed /\ Head(s) = "-"
                      THEN 0 - DigitsToNat(digits, 0)
                      ELSE DigitsToNat(digits, 0)]

\* strings.Fields: the maximal runs of non-space characters, in order.
RECURSIVE FieldsFrom(_, _, _)
FieldsFrom(s, cur, acc) ==
    IF s = <<>> THEN (IF cur = <<>> THEN acc ELSE Append(acc, cur))
    ELSE IF IsSpace(Head(s))
         THEN FieldsFrom(Tail(s), <<>>, IF cur = <<>> THEN acc ELSE Append(acc, cur))
         ELSE FieldsFrom(Tail(s), Append(cur, Head(s)), acc)

Fields(s) == FieldsFrom(s, <<>>, <<>>)

(***************************************************************************)
(* RESP values                                                             *)
(***************************************************************************)
SimpleString == "+"
Error        == "-"
Integer      == ":"
BulkString   == "$"
Array        == "*"

\* A RESPValue with Go's zero values in the fields the variant does not use.
RESPValue(t, str, int, arr, null) ==
    [Type |-> t, Str |-> str, Int |-> int, Array |-> arr, Null |-> null]

MkSimple(s)  == RESPValue(SimpleString, s, 0, <<>>, FALSE)
MkError(s)   == RESPValue(Error, s, 0, <<>>, FALSE)
MkInt(n)     == RESPValue(Integer, <<>>, n, <<>>, FALSE)
MkBulk(s)    == RESPValue(BulkString, s, 0, <<>>, FALSE)
MkNullBulk   == RESPValue(BulkString, <<>>, 0, <<>>, TRUE)
MkArray(a)   == RESPValue(Array, <<>>, 0, a, FALSE)
MkNullArray  == RESPValue(Array, <<>>, 0, <<>>, TRUE)

\* Outcomes of reading from a byte stream: a value and the unread rest, the
\* stream running out (io.EOF / io.ErrUnexpectedEOF), or a framing error.
ReadOk(v, rest) == [st |-> "ok", val |-> v, rest |-> rest]
ReadEof         == [st |-> "eof", val |-> MkNullBulk, rest |-> <<>>]
ReadFraming     == [st |-> "framing", val |-> MkNullBulk, rest |-> <<>>]

\* Index of the first "\n" of s, 0 when there is none.
RECURSIVE IndexLF(_, _)
IndexLF(s, i) ==
    IF i > Len(s) THEN 0
    ELSE IF s[i] = "\n" THEN i ELSE IndexLF(s, i + 1)

\* A mutant of readLine that takes the end of the stream inside a line for a
\* line without terminator.
readLine_EofAsFraming(buf) ==
    LET i == IndexLF(buf, 1)
    IN  IF i = 0 \/ i < 2 \/ buf[i - 1] # "\r"
        THEN [st |-> "framing", line |-> <<>>, rest |-> <<>>]
        ELSE [st |-> "ok", line |-> SubSeq(buf, 1, i - 2),
              rest |-> SubSeq(buf, i + 1, Len(buf))]

\* A mutant of readLine that strips only the "\n".
readLine_KeepCR(buf) ==
    LET i == IndexLF(buf, 1)
    IN  IF i = 0 THEN [st |-> "eof", line |-> <<>>, rest |-> <<>>]
        ELSE IF i < 2 \/ buf[i - 1] # "\r"
             THEN [st |-> "framing", line |-> <<>>, rest |-> <<>>]
             ELSE [st |-> "ok", line |-> SubSeq(buf, 1, i - 1),
                   rest |-> SubSeq(buf, i + 1, Len(buf))]

readLine(buf) ==
    LET i == IndexLF(buf, 1)
    IN  IF i = 0 THEN [st |-> "eof", line |-> <<>>, rest |-> <<>>]
        ELSE IF i < 2 \/ buf[i - 1] # "\r"
             THEN [st |-> "framing", line |-> <<>>, rest |-> <<>>]
             ELSE [st |-> "ok", line |-> SubSeq(buf, 1, i - 2),
                   rest |-> SubSeq(buf, i + 1, Len(buf))]

readSimpleString(buf) ==
    LET l == readLine(buf)
    IN  IF l.st = "eof" THEN ReadEof
        ELSE IF l.st = "framing" THEN ReadFraming
        ELSE ReadOk(MkSimple(l.line), l.rest)

readError(buf) ==
    LET l == readLine(buf)
    IN  IF l.st = "eof" THEN ReadEof
        ELSE IF l.st = "framing" THEN ReadFraming
        ELSE ReadOk(MkError(l.line), l.rest)

readInteger(buf) ==
    LET l == readLine(buf)
        n == ParseInt(l.line)
    IN  IF l.st = "eof" THEN ReadEof
        ELSE IF l.st = "framing" THEN ReadFraming
        ELSE IF ~n.ok THEN ReadFraming
        ELSE ReadOk(MkInt(n.val), l.rest)

\* A mutant of readBulkString that does not look at the two bytes after the
\* body.
readBulkString_NoTerminatorCheck(buf) ==
    LET l == readLine(buf)
        n == ParseInt(l.line)
        size == n.val
    IN  IF l.st = "eof" THEN ReadEof
        ELSE IF l.st = "framing" THEN ReadFraming
        ELSE IF ~n.ok THEN ReadFraming
        ELSE IF size < 0 THEN ReadOk(MkNullBulk, l.rest)
        ELSE IF Len(l.rest) < size + 2 THEN ReadEof
        ELSE ReadOk(MkBulk(SubSeq(l.rest, 1, size)),
                    SubSeq(l.rest, size + 3, Len(l.rest)))

readBulkString(buf) ==
    LET l == readLine(buf)
        n == ParseInt(l.line)
        size == n.val
    IN  IF l.st = "eof" THEN ReadEof
        ELSE IF l.st = "framing" THEN ReadFraming
        ELSE IF ~n.ok THEN ReadFraming
        ELSE IF size < 0 THEN ReadOk(MkNullBulk, l.rest)
        ELSE IF Len(l.rest) < size + 2 THEN ReadEof
        ELSE IF l.rest[size + 1] # "\r" \/ l.rest[size + 2] # "\n" THEN ReadFraming
        ELSE ReadOk(MkBulk(SubSeq(l.rest, 1, size)),
                    SubSeq(l.rest, size + 3, Len(l.rest)))

RECURSIVE ReadValue(_), readArray(_), readElems(_, _, _)

\* The loop of readArray: count more values, appended to arr in order.
readElems(buf, count, arr) ==
    IF count = 0 THEN ReadOk(MkArray(arr), buf)
    ELSE LET r == ReadValue(buf)
         IN  IF r.st # "ok" THEN r
             ELSE readElems(r.rest, count - 1, Append(arr, r.val))

readArray(buf) ==
    LET l == readLine(buf)
        n == ParseInt(l.line)
    IN  IF l.st = "eof" THEN ReadEof
        ELSE IF l.st = "framing" THEN ReadFraming
        ELSE IF ~n.ok THEN ReadFraming
        ELSE IF n.val < 0 THEN ReadOk(MkNullArray, l.rest)
        ELSE readElems(l.rest, n.val, <<>>)

ReadValue(buf) ==
    IF buf = <<>> THEN ReadEof
    ELSE LET typeByte == Head(buf)
             rest == Tail(buf)
         IN  CASE typeByte = SimpleString -> readSimpleString(rest)
               [] typeByte = Error        -> readError(rest)
               [] typeByte = Integer      -> readInteger(rest)
               [] typeByte = BulkString   -> readBulkString(rest)
               [] typeByte = Array        -> readArray(rest)
               [] OTHER                   -> ReadFraming

RECURSIVE Serialize(_), SerializeElems(_)

SerializeElems(arr) ==
    IF arr = <<>> THEN <<>>
    ELSE Serialize(Head(arr)) \o SerializeElems(Tail(arr))

Serialize(v) ==
    CASE v.Type = SimpleString -> <<"+">> \o v.Str \o CRLF
      [] v.Type = Error        -> <<"-">> \o v.Str \o CRLF
      [] v.Type = Integer      -> <<":">> \o Itoa(v.Int) \o CRLF
      [] v.Type = BulkString   ->
            IF v.Null THEN <<"$", "-", "1">> \o CRLF
            ELSE <<"$">> \o Itoa(Len(v.Str)) \o CRLF \o v.Str \o CRLF
      [] v.Type = Array        ->
            IF v.Null THEN <<"*", "-", "1">> \o CRLF
            ELSE <<"*">> \o Itoa(Len(v.Array)) \o CRLF \o SerializeElems(v.Array)
      [] OTHER                 -> <<>>

(***************************************************************************)
(* Redirect rewriter                                                       *)
(***************************************************************************)
MOVED_ == <<"M", "O", "V", "E", "D", " ">>
ASK_   == <<"A", "S", "K", " ">>

\* A mutant of IsRedirectError that forgets the Error type test.
IsRedirectError_AnyType(v) ==
    HasPrefix(v.Str, MOVED_) \/ HasPrefix(v.Str, ASK_)

IsRedirectError(v) ==
    IF v.Type # Error THEN FALSE
    ELSE HasPrefix(v.Str, MOVED_) \/ HasPrefix(v.Str, ASK_)

\* A mutant of RewriteRedirectError that rewrites before it knows whether the
\* target is mapped.
RewriteRedirectError_NoLookup(v, nodeMap) ==
    IF ~IsRedirectError(v) THEN [ok |-> FALSE, v |-> v]
    ELSE LET parts == Fields(v.Str)
         IN  IF Len(parts) # 3 THEN [ok |-> FALSE, v |-> v]
             ELSE [ok |-> parts[3] \in DOMAIN nodeMap,
                   v |-> [v EXCEPT !.Str = parts[1] \o <<" ">> \o parts[2]]]

\* A mutant of RewriteRedirectError that writes the remote target back instead
\* of the local address it looked up.
RewriteRedirectError_KeepTarget(v, nodeMap) ==
    IF ~IsRedirectError(v) THEN [ok |-> FALSE, v |-> v]
    ELSE LET parts == Fields(v.Str)
         IN  IF Len(parts) # 3 THEN [ok |-> FALSE, v |-> v]
             ELSE IF parts[3] \notin DOMAIN nodeMap THEN [ok |-> FALSE, v |-> v]
             ELSE [ok |-> TRUE,
                   v |-> [v EXCEPT !.Str = parts[1] \o <<" ">> \o parts[2]
                                             \o <<" ">> \o parts[3]]]

\* The result is the bool returned and the value as the call left it.
RewriteRedirectError(v, nodeMap) ==
    IF ~IsRedirectError(v) THEN [ok |-> FALSE, v |-> v]
    ELSE LET parts == Fields(v.Str)
         IN  IF Len(parts) # 3 THEN [ok |-> FALSE, v |-> v]
             ELSE LET redirectType == parts[1]
                      slot == parts[2]
                      targetAddr == parts[3]
                  IN  IF targetAddr \notin DOMAIN nodeMap
                      THEN [ok |-> FALSE, v |-> v]
                      ELSE [ok |-> TRUE,
                            v |-> [v EXCEPT !.Str = redirectType \o <<" ">> \o slot
                                              \o <<" ">> \o nodeMap[targetAddr]]]

(***************************************************************************)
(* Addresses                                                               *)
(***************************************************************************)
\* config.NewConfig's LocalAddr, "127.0.0.1"
LocalAddr == <<"1", "2", "7", ".", "0", ".", "0", ".", "1">>

\* config.NewConfig's StartPort
StartPort == 6379

\* fmt.Sprintf("%s:%d", host, port)
HostPort(host, port) == host \o <<":">> \o Itoa(port)

\* The remote hosts of the modelled deployment: the primary and its peers.
RemoteHost(i) == <<"1", "0", ".", "0", ".", "0", ".", DigitChars[i + 1]>>

RemoteAddrOf(i) == HostPort(RemoteHost(i), 6379)

\* The local address of the listener on the i-th port from StartPort.
LocalAddrOf(i) == HostPort(LocalAddr, StartPort + i)

\* A node map as AddProxy builds it: remote i -> the i-th local listener.
NodeMapOf(S) ==
    [a \in {RemoteAddrOf(i) : i \in S} |->
        LocalAddrOf((CHOOSE i \in S : RemoteAddrOf(i) = a) - 1)]

(***************************************************************************)
(* Codec harness: the inputs                                               *)
(***************************************************************************)
\* Total number of RESP values in one generated value, nested ones included.
MaxNodes == 3

Slot == <<"3", "9", "9", "9">>

Keywords ==
    { <<"M", "O", "V", "E", "D">>, <<"A", "S", "K">>,
      <<"m", "o", "v", "e", "d">>, <<"E", "R", "R">> }

Separators == { <<" ">>, <<" ", " ">>, <<"\t">> }

Tails == { <<>>, <<" ">>, <<" ", "x">> }

\* Targets: two cluster nodes and a host:port no proxy ever serves.
Targets == { RemoteAddrOf(1), RemoteAddrOf(2), RemoteAddrOf(9) }

\* Payloads shaped like redirects, well-formed and not.
RedirectLikePayloads ==
    { kw \o s1 \o Slot \o s2 \o t \o tail :
        kw \in Keywords, s1 \in Separators, s2 \in Separators,
        t \in Targets, tail \in Tails }

\* Payloads with fewer than three fields.
ShortPayloads ==
    { <<>>, <<"O", "K">>, <<"M", "O", "V", "E", "D">>, MOVED_, ASK_,
      <<"A", "S", "K", "I", "N", "G">>,
      MOVED_ \o Slot, ASK_ \o RemoteAddrOf(1),
      <<"E", "R", "R", " ", "s", "o", "m", "e", "t", "h", "i", "n", "g">>,
      <<"a", "\r">>, <<"a", "\r", "b">> }

LinePayloads == RedirectLikePayloads \cup ShortPayloads

\* Bulk bodies may hold any byte, CR and LF included.
BulkPayloads ==
    LinePayloads \cup
    { <<"\r", "\n">>, <<"a", "\n", "b">>, <<"+", "O", "K", "\r", "\n">>,
      <<"0", "1", "2", "3", "4", "5", "6", "7", "8", "9", "a">> }

IntValues == { 0 - 1234, 0 - 10, 0 - 1, 0, 1, 7, 10, 99, 100, 6379 }

\* The values nested inside generated arrays.
ElemLeaves ==
    { MkSimple(<<"O", "K">>), MkError(MOVED_ \o Slot \o <<" ">> \o RemoteAddrOf(1)),
      MkInt(0 - 12), MkBulk(<<"a", "\r", "\n">>), MkNullBulk, MkNullArray }

RECURSIVE ValuesOfSize(_), SeqsOfSize(_)

\* The sequences of values holding n values in total.
SeqsOfSize(n) ==
    IF n = 0 THEN { <<>> }
    ELSE UNION { { <<v>> \o rest : v \in ValuesOfSize(k), rest \in SeqsOfSize(n - k) } :
                 k \in 1..n }

\* The values made of exactly n values: a leaf, or an array of n - 1.
ValuesOfSize(n) ==
    (IF n = 1 THEN ElemLeaves ELSE {}) \cup { MkArray(a) : a \in SeqsOfSize(n - 1) }

TopValues ==
    { MkSimple(s) : s \in LinePayloads } \cup
    { MkError(s) : s \in LinePayloads } \cup
    { MkInt(n) : n \in IntValues } \cup
    { MkBulk(s) : s \in BulkPayloads } \cup
    UNION { ValuesOfSize(n) : n \in 1..MaxNodes }

CodecNodeMaps == { NodeMapOf({}), NodeMapOf({1}), NodeMapOf({1, 2}) }

(***************************************************************************)
(* Codec harness: one value through the codec and the rewriter             *)
(***************************************************************************)
CodecInit ==
    /\ cpc = "new"
    /\ cv \in TopValues
    /\ cmap \in CodecNodeMaps
    /\ cres = FALSE
    /\ cout = cv
    /\ cwire = <<>>
    /\ cread = ReadEof

CodecIsRedirect ==
    /\ cpc = "new"
    /\ cpc' = "isredirect"
    /\ cres' = IsRedirectError(cv)
    /\ UNCHANGED <<cv, cmap, cout, cwire, cread, mgrVars, conn, topoVars,
                   lifeVars>>

CodecRewrite ==
    /\ cpc = "new"
    /\ cpc' = "rewritten"
    /\ LET r == RewriteRedirectError(cv, cmap)
       IN  cres' = r.ok /\ cout' = r.v
    /\ UNCHANGED <<cv, cmap, cwire, cread, mgrVars, conn, topoVars,
                   lifeVars>>

CodecSerialize ==
    /\ cpc = "new"
    /\ cpc' = "serialized"
    /\ cwire' = Serialize(cv)
    /\ UNCHANGED <<cv, cmap, cres, cout, cread, mgrVars, conn, topoVars,
                   lifeVars>>

CodecRead ==
    /\ cpc = "serialized"
    /\ cpc' = "read"
    /\ cread' = ReadValue(cwire)
    /\ UNCHANGED <<cv, cmap, cres, cout, cwire, mgrVars, conn, topoVars,
                   lifeVars>>

CodecNext ==
    \/ CodecIsRedirect
    \/ CodecRewrite
    \/ CodecSerialize
    \/ CodecRead

\* A reader in front of a stream that ends inside the value cv: after its
\* type byte, inside a line, inside a bulk body or between array elements.
TruncatedInit ==
    /\ cpc = "serialized"
    /\ cv \in TopValues
    /\ cmap = NodeMapOf({})
    /\ cres = FALSE
    /\ cout = MkNullBulk
    /\ cwire \in { SubSeq(Serialize(cv), 1, k) : k \in 1..(Len(Serialize(cv)) - 1) }
    /\ cread = ReadEof

\* The largest length a generated bulk string declares.
MaxDeclared == 2

\* "$<n>\r\n" and the bytes the stream holds after it.
BulkWire(n, after) == <<"$">> \o Itoa(n) \o CRLF \o after

ArrayOfOne == <<"*", "1", "\r", "\n">>

\* What may follow the length line: up to MaxDeclared + 2 bytes, CR and LF
\* among them, so the body is short, exact or long and the terminator is
\* there, partly there or not.
FramingTails ==
    UNION { [1..k -> {"a", "\r", "\n"}] : k \in 0..(MaxDeclared + 2) }

\* Bulk strings as a remote may send them, alone and as the element of an
\* array.
FramingWires ==
    { prefix \o BulkWire(n, after) :
        prefix \in { <<>>, ArrayOfOne }, n \in 0..MaxDeclared, after \in FramingTails }

\* A reader in front of one generated bulk string.
FramingInit ==
    /\ cpc = "serialized"
    /\ cv = MkNullBulk
    /\ cmap = NodeMapOf({})
    /\ cres = FALSE
    /\ cout = MkNullBulk
    /\ cwire \in FramingWires
    /\ cread = ReadEof


(***************************************************************************)
(* Manager                                                                 *)
(***************************************************************************)
\* Number of endpoints the external discovery hands to the caller of AddProxy.
MaxEndpoints == 1

\* Number of cluster nodes a topology reply lists besides the queried node.
MaxPeers == 1

Password == <<"p", "w">>

\* An access token; more than nine bytes, so its length prefix has two digits.
Token == <<"y", "a", "2", "9", ".", "t", "o", "k", "e", "n", "1">>

\* The one mode AddProxy tells from the others.
AuthorizationModes == { "IAM_AUTH" }

\* A Proxy as AddProxy fills it and Start leaves it; its nodeMap is the
\* manager's map itself. shutdownOnce is "new", "running" or "done";
\* shutdownCloses counts the close(p.shutdown) executed and listenerCloses the
\* p.listener.Close().
Proxy(localAddr, remoteAddr, authPassword, tokenSource, tlsConfig, isClusterMode) ==
    [localAddr |-> localAddr, remoteAddr |-> remoteAddr,
     authPassword |-> authPassword, tokenSource |-> tokenSource,
     tlsConfig |-> tlsConfig, isClusterMode |-> isClusterMode,
     shutdownOnce |-> "new", shutdownCloses |-> 0, listenerCloses |-> 0]

\* ClusterNode of cluster.go
ClusterNode(id, address, port, flags, role) ==
    [ID |-> id, Address |-> address, Port |-> port, Flags |-> flags, Role |-> role]

\* strings.Contains
Contains(s, sub) ==
    \E i \in 0..(Len(s) - Len(sub)) : SubSeq(s, i + 1, i + Len(sub)) = sub

\* strings.LastIndex(address, ":"), 1-based, 0 when there is none
RECURSIVE LastColon(_, _)
LastColon(s, i) ==
    IF i = 0 THEN 0 ELSE IF s[i] = ":" THEN i ELSE LastColon(s, i - 1)

extractHost(address) ==
    LET idx == LastColon(address, Len(address))
    IN  IF idx # 0 THEN SubSeq(address, 1, idx - 1) ELSE address

RECURSIVE TrimLeft(_)
TrimLeft(s) == IF s # <<>> /\ IsSpace(Head(s)) THEN TrimLeft(Tail(s)) ELSE s

RECURSIVE TrimRight(_)
TrimRight(s) ==
    IF s # <<>> /\ IsSpace(s[Len(s)]) THEN TrimRight(SubSeq(s, 1, Len(s) - 1)) ELSE s

\* strings.TrimSpace
TrimSpace(s) == TrimRight(TrimLeft(s))

\* strings.Index(s, c) for a one-byte c, 1-based from position i; 0 when
\* there is none
RECURSIVE IndexByte(_, _, _)
IndexByte(s, c, i) ==
    IF i > Len(s) THEN 0 ELSE IF s[i] = c THEN i ELSE IndexByte(s, c, i + 1)

\* strings.Split(s, sep) for a one-byte sep
RECURSIVE Split(_, _)
Split(s, sep) ==
    LET idx == IndexByte(s, sep, 1)
    IN  IF idx = 0 THEN <<s>>
        ELSE <<SubSeq(s, 1, idx - 1)>> \o Split(SubSeq(s, idx + 1, Len(s)), sep)

\* s[:idx] when sep occurs in s (at idx), s otherwise
CutAt(s, sep) ==
    LET idx == IndexByte(s, sep, 1)
    IN  IF idx # 0 THEN SubSeq(s, 1, idx - 1) ELSE s

RECURSIVE LeadingDigits(_)
LeadingDigits(s) ==
    IF s # <<>> /\ IsDigit(Head(s)) THEN <<Head(s)>> \o LeadingDigits(Tail(s)) ELSE <<>>

\* fmt.Sscanf(s, "%d", &port) with port zero before: the decimal number s
\* starts with (after spaces and an optional sign), zero when there is none.
SscanPort(s) ==
    LET t == TrimLeft(s)
        signed == t # <<>> /\ Head(t) \in {"+", "-"}
        digits == LeadingDigits(IF signed THEN Tail(t) ELSE t)
        n == DigitsToNat(digits, 0)
    IN  IF digits = <<>> THEN 0
        ELSE IF signed /\ Head(t) = "-" THEN 0 - n ELSE n

\* A mutant of parseLine that strips only the bus port.
parseLine_BusPortOnly(fields) ==
    LET address == CutAt(fields[2], "@")
        parts == Split(address, ":")
    IN  ClusterNode(fields[1], address,
                    IF Len(parts) = 2 THEN SscanPort(parts[2]) ELSE 0,
                    fields[3],
                    IF Contains(fields[3], <<"m", "a", "s", "t", "e", "r">>)
                    THEN "master" ELSE "slave")

\* The body of parseClusterNodes' loop for a line of at least 8 fields.
parseLine(fields) ==
    LET address == CutAt(CutAt(fields[2], "@"), ",")
        parts == Split(address, ":")
    IN  ClusterNode(fields[1], address,
                    IF Len(parts) = 2 THEN SscanPort(parts[2]) ELSE 0,
                    fields[3],
                    IF Contains(fields[3], <<"m", "a", "s", "t", "e", "r">>)
                    THEN "master" ELSE "slave")

RECURSIVE parseLines(_, _)
parseLines(lines, nodes) ==
    IF lines = <<>> THEN nodes
    ELSE LET line == TrimSpace(Head(lines))
             fields == Fields(line)
         IN  IF line = <<>> \/ Len(fields) < 8
             THEN parseLines(Tail(lines), nodes)
             ELSE parseLines(Tail(lines), Append(nodes, parseLine(fields)))

\* parseClusterNodes(output); its error result is always nil.
parseClusterNodes(output) == parseLines(Split(TrimSpace(output), "\n"), <<>>)

\* A mutant of FilterFrom that marks an address seen before the tests.
RECURSIVE FilterFrom_SeenFirst(_, _, _, _)
FilterFrom_SeenFirst(nodes, currentAddress, seen, unique) ==
    IF nodes = <<>> THEN unique
    ELSE LET node == Head(nodes)
         IN  IF \/ node.Address = currentAddress
                \/ Contains(node.Flags, <<"m", "y", "s", "e", "l", "f">>)
                \/ node.Address \in seen
             THEN FilterFrom_SeenFirst(Tail(nodes), currentAddress,
                                       seen \cup {node.Address}, unique)
             ELSE FilterFrom_SeenFirst(Tail(nodes), currentAddress,
                                       seen \cup {node.Address}, Append(unique, node))

RECURSIVE FilterFrom(_, _, _, _)
FilterFrom(nodes, currentAddress, seen, unique) ==
    IF nodes = <<>> THEN unique
    ELSE LET node == Head(nodes)
         IN  IF node.Address = currentAddress
             THEN FilterFrom(Tail(nodes), currentAddress, seen, unique)
             ELSE IF Contains(node.Flags, <<"m", "y", "s", "e", "l", "f">>)
             THEN FilterFrom(Tail(nodes), currentAddress, seen, unique)
             ELSE IF node.Address \in seen
             THEN FilterFrom(Tail(nodes), currentAddress, seen, unique)
             ELSE FilterFrom(Tail(nodes), currentAddress,
                             seen \cup {node.Address}, Append(unique, node))

FilterUniqueNodes(nodes, currentAddress) ==
    FilterFrom(nodes, currentAddress, {}, <<>>)

\* The byte a buffer holds where Read stored nothing.
NUL == "NUL"

\* fmt.Sscanf(lengthLine, "%d\r\n", &length): a decimal number and the end
\* of the line.
ScanLength(lengthLine) ==
    LET n == Len(lengthLine)
        noLF == IF n >= 1 /\ lengthLine[n] = "\n"
                THEN SubSeq(lengthLine, 1, n - 1) ELSE lengthLine
        m == Len(noLF)
        noCR == IF m >= 1 /\ noLF[m] = "\r" THEN SubSeq(noLF, 1, m - 1) ELSE noLF
    IN  ParseInt(TrimLeft(noCR))

TopologyNodes(nodes) == [st |-> "ok", nodes |-> nodes, err |-> ""]
TopologyError(err)   == [st |-> "error", nodes |-> <<>>, err |-> err]
TopologyPanic        == [st |-> "panic", nodes |-> <<>>, err |-> "makeslice: len out of range"]

\* A mutant of DiscoverClusterTopology that reports an error reply as a
\* failed read.
DiscoverClusterTopology_ErrorAsReadFailure(writeOk, reply, got) ==
    IF ~writeOk THEN TopologyError("failed to send CLUSTER NODES command")
    ELSE IF reply = <<>> \/ Head(reply) = "-"
    THEN TopologyError("failed to read response type")
    ELSE IF Head(reply) # "$" THEN TopologyError("unexpected response type")
    ELSE LET lf == IndexLF(reply, 2)
             length == ScanLength(SubSeq(reply, 2, lf))
             body == SubSeq(reply, lf + 1, Len(reply))
             read == Min(Min(got, length.val), Len(body))
             data == SubSeq(body, 1, read) \o [i \in 1..(length.val - read) |-> NUL]
         IN  IF lf = 0 THEN TopologyError("failed to read length")
             ELSE IF ~length.ok THEN TopologyError("invalid length format")
             ELSE IF length.val < 0 THEN TopologyPanic
             ELSE IF length.val > 0 /\ body = <<>>
             THEN TopologyError("failed to read data")
             ELSE TopologyNodes(parseClusterNodes(data))

\* DiscoverClusterTopology(conn).  writeOk is the outcome of conn.Write,
\* reply the bytes the remote sends before the read deadline or the end of
\* the stream, got the number of bytes the one reader.Read(data) delivers.
DiscoverClusterTopology(writeOk, reply, got) ==
    IF ~writeOk THEN TopologyError("failed to send CLUSTER NODES command")
    ELSE IF reply = <<>> THEN TopologyError("failed to read response type")
    ELSE IF Head(reply) = "-" THEN TopologyError("not a cluster instance")
    ELSE IF Head(reply) # "$" THEN TopologyError("unexpected response type")
    ELSE LET lf == IndexLF(reply, 2)
             length == ScanLength(SubSeq(reply, 2, lf))
             body == SubSeq(reply, lf + 1, Len(reply))
             read == Min(Min(got, length.val), Len(body))
             data == SubSeq(body, 1, read) \o [i \in 1..(length.val - read) |-> NUL]
         IN  IF lf = 0 THEN TopologyError("failed to read length")
             ELSE IF ~length.ok THEN TopologyError("invalid length format")
             ELSE IF length.val < 0 THEN TopologyPanic
             ELSE IF length.val > 0 /\ body = <<>>
             THEN TopologyError("failed to read data")
             ELSE TopologyNodes(parseClusterNodes(data))

MyselfMaster == <<"m", "y", "s", "e", "l", "f", ",", "m", "a", "s", "t", "e", "r">>
Master == <<"m", "a", "s", "t", "e", "r">>
Slave == <<"s", "l", "a", "v", "e">>

RECURSIVE Join(_, _)
Join(ss, sep) ==
    IF ss = <<>> THEN <<>>
    ELSE IF Len(ss) = 1 THEN Head(ss)
    ELSE Head(ss) \o sep \o Join(Tail(ss), sep)

\* A line of CLUSTER NODES output:
\* <id> <ip:port@cport[,hostname]> <flags> <master> <ping-sent> <pong-recv>
\* <config-epoch> <link-state>, cut to its first n fields.
NodeLine(id, address, suffix, flags, n) ==
    Join(SubSeq(<<id, address \o suffix, flags, <<"-">>, <<"0">>, <<"0">>, <<"1">>,
                  <<"c", "o", "n", "n", "e", "c", "t", "e", "d">>, <<"0", "-", "5">>>>,
                1, n),
         <<" ">>)

BusPort == <<"@", "1", "6", "3", "7", "9">>

\* The CLUSTER NODES output of a cluster of the queried node and k peers.
TopologyOf(k) ==
    Flatten([i \in 1..(k + 1) |->
        NodeLine(<<DigitChars[i + 1]>>, RemoteAddrOf(i), BusPort,
                 IF i = 1 THEN MyselfMaster ELSE Master, 8) \o <<"\n">>])

\* fmt's bulk string of a text
BulkReply(text) == <<"$">> \o Itoa(Len(text)) \o CRLF \o text \o CRLF

ErrorReply ==
    <<"-", "E", "R", "R", " ", "n", "o", " ", "c", "l", "u", "s", "t", "e", "r",
      "\r", "\n">>

\* What the queried node may answer: an error for a node that is no cluster
\* member, or the topology of it alone, of it and its peers, and one naming a
\* replica twice.
Replies(maxPeers) ==
    { ErrorReply } \cup
    { BulkReply(TopologyOf(k)) : k \in 0..maxPeers } \cup
    { BulkReply(NodeLine(<<"9">>, RemoteAddrOf(2), BusPort, Slave, 8) \o <<"\n">>
                    \o TopologyOf(1)) }

\* The query outcomes of a set of replies read in one piece.
QueriesOf(replies) ==
    { [reply |-> r, res |-> DiscoverClusterTopology(TRUE, r, Len(r))] : r \in replies }

BasicQueries == QueriesOf(Replies(MaxPeers))

\* The address the queried node has in the cluster when the primary endpoint
\* is another address of it (a discovery endpoint, a forwarding address).
OwnAddr == RemoteAddrOf(9)

\* The CLUSTER NODES output of a cluster of k peers whose queried node
\* reports OwnAddr for itself.
AliasTopologyOf(k) ==
    NodeLine(<<"1">>, OwnAddr, BusPort, MyselfMaster, 8) \o <<"\n">> \o
    Flatten([i \in 1..k |->
        NodeLine(<<DigitChars[i + 2]>>, RemoteAddrOf(i + 1), BusPort, Master, 8)
            \o <<"\n">>])

\* The answers of a cluster reached through the address it reports or
\* through another one.
AliasQueries ==
    QueriesOf({ BulkReply(TopologyOf(k)) : k \in 0..MaxPeers } \cup
              { BulkReply(AliasTopologyOf(k)) : k \in 0..MaxPeers })

\* Number of peers in the topologies of the discovery specification.
MaxClusterPeers == 2

IntegerReply == <<":", "1", "\r", "\n">>

\* The answers of the discovery specification: those of a cluster of up to
\* MaxClusterPeers peers, a reply that is neither an error nor a bulk string,
\* a stream that ends before the first byte, and a failed write of the query.
DiscoveryQueries ==
    QueriesOf(Replies(MaxClusterPeers) \cup { IntegerReply, <<>> }) \cup
    { [reply |-> <<>>, res |-> DiscoverClusterTopology(FALSE, <<>>, 0)] }

(***************************************************************************)
(* Topology harness: CLUSTER NODES output through parseClusterNodes and    *)
(* FilterUniqueNodes                                                       *)
(***************************************************************************)
\* Number of lines in one generated output.
MaxLines == 3

MyselfSlave == <<"m", "y", "s", "e", "l", "f", ",", "s", "l", "a", "v", "e">>

HostSuffix == <<",", "h", "o", "s", "t">>

\* A line of n fields around text, with the node it describes when it has
\* the 8 fields of a node line.
LineOf(lead, id, i, suffix, flags, role, n, trail) ==
    [text |-> lead \o NodeLine(id, RemoteAddrOf(i), suffix, flags, n) \o trail,
     nodes |-> IF n >= 8
               THEN <<ClusterNode(id, RemoteAddrOf(i), 6379, flags, role)>>
               ELSE <<>>]

\* Lines of the queried node and of two other addresses, with and without
\* the bus port and the hostname, as master, replica and myself; lines with
\* slots, with surrounding whitespace and a CR; a line cut to 7 fields, one
\* cut to its id, and lines of nothing or of whitespace only.
TopoLines ==
    { LineOf(<<>>, <<"a">>, 1, BusPort, MyselfMaster, "master", 8, <<>>),
      LineOf(<<>>, <<"b">>, 1, BusPort, Slave, "slave", 8, <<>>),
      LineOf(<<>>, <<"c">>, 2, BusPort, Master, "master", 8, <<>>),
      LineOf(<<>>, <<"d">>, 2, BusPort \o HostSuffix, Slave, "slave", 8, <<>>),
      LineOf(<<>>, <<"e">>, 2, <<>>, MyselfSlave, "slave", 8, <<>>),
      LineOf(<<>>, <<"f">>, 3, HostSuffix \o BusPort, Master, "master", 9, <<>>),
      LineOf(<<"\t", " ">>, <<"g">>, 3, HostSuffix, Slave, "slave", 9, <<" ", "\r">>),
      LineOf(<<>>, <<"h">>, 3, BusPort, Master, "master", 7, <<>>),
      LineOf(<<>>, <<"i">>, 2, BusPort, Master, "master", 1, <<>>),
      [text |-> <<>>, nodes |-> <<>>],
      [text |-> <<" ", "\r">>, nodes |-> <<>>] }

\* The output the lines make, each ended by a line feed.
Render(lines) == Flatten([i \in 1..Len(lines) |-> lines[i].text \o <<"\n">>])

TopoInit ==
    /\ tpc = "new"
    /\ tinput \in UNION { [1..n -> TopoLines] : n \in 1..MaxLines }
    /\ tself \in { RemoteAddrOf(1), RemoteAddrOf(9) }
    /\ tnodes = <<>>
    /\ tunique = <<>>

TopoParse ==
    /\ tpc = "new"
    /\ tpc' = "parsed"
    /\ tnodes' = parseClusterNodes(Render(tinput))
    /\ UNCHANGED <<tinput, tself, tunique, codecVars, mgrVars, conn,
                   lifeVars>>

TopoFilter ==
    /\ tpc = "parsed"
    /\ tpc' = "filtered"
    /\ tunique' = FilterUniqueNodes(tnodes, tself)
    /\ UNCHANGED <<tinput, tself, tnodes, codecVars, mgrVars, conn,
                   lifeVars>>

TopoNext ==
    \/ TopoParse
    \/ TopoFilter

\* Number of peers in the topologies whose reply is read in pieces.
MaxReplyPeers == 1

\* A declared length without the bytes: a null bulk string and another
\* negative length.
NegativeReplies ==
    { <<"$", "-", "1", "\r", "\n">>, <<"$", "-", "5", "\r", "\n">> }

\* What DiscoverClusterTopology may be given: the bulk string of a topology,
\* of which the one Read delivers everything or ends inside the last line; a
\* bulk string that ends before its declared length; a negative length; an
\* error, another type, nothing.
ReplyReads ==
    { [reply |-> BulkReply(TopologyOf(0)), got |-> n] : n \in 1..Len(TopologyOf(0)) }
    \cup UNION { { [reply |-> BulkReply(TopologyOf(k)), got |-> n] :
                     n \in (Len(TopologyOf(k - 1)) + 1)..Len(TopologyOf(k)) } :
                   k \in 1..MaxReplyPeers }
    \cup { [reply |-> SubSeq(BulkReply(TopologyOf(0)), 1, n), got |-> n] :
             n \in 1..(Len(BulkReply(TopologyOf(0))) - 1) }
    \cup { [reply |-> r, got |-> 0] :
             r \in NegativeReplies \cup { ErrorReply, IntegerReply, <<>> } }

ReplyInit ==
    /\ tpc = "reply"
    /\ tinput \in ReplyReads
    /\ tself = <<>>
    /\ tnodes = <<>>
    /\ tunique = <<>>

\* The call DiscoverClusterTopology(conn) on a connection that carries the
\* reply; a panic of the call is kept as its outcome.
TopoDiscover ==
    /\ tpc = "reply"
    /\ tpc' = "discovered"
    /\ tnodes' = DiscoverClusterTopology(TRUE, tinput.reply, tinput.got)
    /\ UNCHANGED <<tinput, tself, tunique, codecVars, mgrVars, conn,
                   lifeVars>>

\* Proxy.Shutdown calls made by others than Manager.Shutdown.
MaxCallers == 1

MshutIdle == [pc |-> "idle", i |-> 0]

CallerIdle == [pc |-> "idle", proxy |-> 0, by |-> ""]

CallersIdle == [c \in 0..MaxCallers |-> CallerIdle]

\* The call's position and locals: auth is the authentication it ran on its
\* connection, reply is what the queried node answered,
\* calls the AddProxy calls of the loop so far (endpoint, local port, whether
\* AddProxy returned nil).
DiscIdle ==
    [pc |-> "idle", auth |-> "", reply |-> <<>>, newNodes |-> <<>>, i |-> 0,
     addedCount |-> 0, err |-> "", calls |-> <<>>]

DiscReturn(count, err) ==
    [DiscIdle EXCEPT !.pc = "returned", !.addedCount = count, !.err = err]

\* main before its loop over the endpoints: the index of the next endpoint
\* and the error AddProxy returned.
MainIdle == [pc |-> "loop", i |-> 0, err |-> ""]

\* A nil *tls.Config: no TLS towards the remote.
NilTlsConfig ==
    [RootCAs |-> "nil", MinVersion |-> "nil", InsecureSkipVerify |-> FALSE]

\* NewManager
MgrInit ==
    /\ mAuthPassword = <<>>
    /\ mAuthorizationMode = ""
    /\ mTokenSource = FALSE
    /\ mTlsConfig = NilTlsConfig
    /\ main = MainIdle
    /\ mIsClusterMode = FALSE
    /\ mNodeMap = NodeMapOf({})
    /\ proxies = <<>>
    /\ disc = DiscIdle
    /\ mu = "free"
    /\ mshut = MshutIdle
    /\ callers = CallersIdle

\* The PEM texts handed to SetTLSConfig: none, a certificate, and a text
\* AppendCertsFromPEM finds no certificate in.
CaCerts == { "", "ca.pem", "not a certificate" }

\* SetTLSConfig(caCert, skipVerify); it returns an error and leaves the
\* manager as it is when the certificate cannot be parsed.
SetTLSConfig(caCert, skipVerify) ==
    /\ mTlsConfig' =
          IF caCert = ""
          THEN [RootCAs |-> "system", MinVersion |-> "TLS12",
                InsecureSkipVerify |-> skipVerify]
          ELSE IF caCert = "not a certificate" THEN mTlsConfig
          ELSE [RootCAs |-> caCert, MinVersion |-> "TLS12",
                InsecureSkipVerify |-> skipVerify]
    /\ UNCHANGED <<mAuthPassword, mAuthorizationMode, mTokenSource, mIsClusterMode,
                   mNodeMap, proxies, disc, main, shutVars, conn, harnessVars,
                   lifeVars>>

SetAuthPassword(password) ==
    /\ mAuthPassword' = password
    /\ UNCHANGED <<mAuthorizationMode, mTokenSource, mIsClusterMode, mNodeMap,
                   proxies, disc, shutVars, conn, harnessVars,
                   lifeVars, mTlsConfig, main>>

SetAuthorizationMode(mode) ==
    /\ mAuthorizationMode' = mode
    /\ UNCHANGED <<mAuthPassword, mTokenSource, mIsClusterMode, mNodeMap,
                   proxies, disc, shutVars, conn, harnessVars,
                   lifeVars, mTlsConfig, main>>

\* AddProxy's test for creating the IAM token provider.
NeedsTokenSource ==
    mAuthorizationMode = "IAM_AUTH" /\ mAuthPassword = <<>> /\ ~mTokenSource

\* Whether AddProxy returns nil: the token provider, when one is needed, was
\* created and the listener was bound.
AddProxyOk(providerOk, listenOk) ==
    (NeedsTokenSource => providerOk) /\ listenOk

\* net.Listen succeeds only on a local address no open listener of this
\* manager holds.
CanListen(localAddr) ==
    \A k \in 1..Len(proxies) :
        proxies[k].listenerCloses = 0 => proxies[k].localAddr # localAddr

\* A mutant of AddProxy that records the node before it starts the Proxy.
AddProxy_MapBeforeStart(host, port, localPort, providerOk, listenOk) ==
    LET localAddr == HostPort(LocalAddr, localPort)
        remoteAddr == HostPort(host, port)
        tokenSource == mTokenSource \/ (NeedsTokenSource /\ providerOk)
    IN  /\ mu = "free"
        /\ listenOk => CanListen(localAddr)
        /\ mTokenSource' = tokenSource
        /\ mNodeMap' = IF NeedsTokenSource /\ ~providerOk THEN mNodeMap
                       ELSE [a \in DOMAIN mNodeMap \cup {remoteAddr} |->
                               IF a = remoteAddr THEN localAddr ELSE mNodeMap[a]]
        /\ IF AddProxyOk(providerOk, listenOk)
           THEN proxies' = Append(proxies,
                                  Proxy(localAddr, remoteAddr, mAuthPassword,
                                        tokenSource, mTlsConfig, mIsClusterMode))
           ELSE UNCHANGED proxies

\* AddProxy(ctx, endpoint{host, port}, localPort); providerOk and listenOk are
\* the outcomes of auth.NewIAMTokenProvider and of proxy.Start.
AddProxy(host, port, localPort, providerOk, listenOk) ==
    LET localAddr == HostPort(LocalAddr, localPort)
        remoteAddr == HostPort(host, port)
        tokenSource == mTokenSource \/ (NeedsTokenSource /\ providerOk)
    IN  /\ mu = "free"
        /\ listenOk => CanListen(localAddr)
        /\ mTokenSource' = tokenSource
        /\ IF AddProxyOk(providerOk, listenOk)
           THEN /\ mNodeMap' = [a \in DOMAIN mNodeMap \cup {remoteAddr} |->
                                 IF a = remoteAddr THEN localAddr ELSE mNodeMap[a]]
                /\ proxies' = Append(proxies,
                                 Proxy(localAddr, remoteAddr, mAuthPassword,
                                       tokenSource, mTlsConfig, mIsClusterMode))
           ELSE UNCHANGED <<mNodeMap, proxies>>

\* The caller that seeds the manager: the i-th discovered endpoint is served
\* on StartPort + i (0-based).
MainAddProxy ==
    \E i \in 1..MaxEndpoints, providerOk \in BOOLEAN, listenOk \in BOOLEAN :
        /\ AddProxy(RemoteHost(i), 6379, StartPort + (i - 1), providerOk, listenOk)
        /\ UNCHANGED <<mAuthPassword, mAuthorizationMode, mIsClusterMode, disc,
                       shutVars, conn, harnessVars,
                       lifeVars, mTlsConfig, main>>

\* The error AddProxy returns, "" for nil.
AddProxyErr(providerOk, listenOk) ==
    IF NeedsTokenSource /\ ~providerOk THEN "failed to create IAM token provider"
    ELSE IF ~listenOk THEN "failed to listen"
    ELSE ""

\* Number of endpoints the instance of the main specification has.
MaxMainEndpoints == 3

\* A mutant of MainLoop that counts the ports from the one after StartPort.
MainLoop_PortFromOne ==
    /\ main.pc = "loop"
    /\ IF main.i = MaxMainEndpoints
       THEN /\ main' = [main EXCEPT !.pc = "ready"]
            /\ UNCHANGED <<mTokenSource, mNodeMap, proxies>>
       ELSE \E providerOk \in BOOLEAN, listenOk \in BOOLEAN :
              /\ AddProxy(RemoteHost(main.i + 1), 6379, StartPort + main.i + 1,
                          providerOk, listenOk)
              /\ main' = IF AddProxyOk(providerOk, listenOk)
                         THEN [main EXCEPT !.i = main.i + 1]
                         ELSE [main EXCEPT !.pc = "fatal",
                                           !.err = AddProxyErr(providerOk, listenOk)]
    /\ UNCHANGED <<mAuthPassword, mAuthorizationMode, mTlsConfig, mIsClusterMode,
                   disc, shutVars, conn, harnessVars, lifeVars>>

\* One turn of main's loop over instanceInfo.Endpoints: the i-th endpoint
\* (0-based) is added on cfg.StartPort + i, an error ends the process
\* (logger.Fatal), and after the last endpoint the health server is marked
\* ready.
MainLoop ==
    /\ main.pc = "loop"
    /\ IF main.i = MaxMainEndpoints
       THEN /\ main' = [main EXCEPT !.pc = "ready"]
            /\ UNCHANGED <<mTokenSource, mNodeMap, proxies>>
       ELSE \E providerOk \in BOOLEAN, listenOk \in BOOLEAN :
              /\ AddProxy(RemoteHost(main.i + 1), 6379, StartPort + main.i,
                          providerOk, listenOk)
              /\ main' = IF AddProxyOk(providerOk, listenOk)
                         THEN [main EXCEPT !.i = main.i + 1]
                         ELSE [main EXCEPT !.pc = "fatal",
                                           !.err = AddProxyErr(providerOk, listenOk)]
    /\ UNCHANGED <<mAuthPassword, mAuthorizationMode, mTlsConfig, mIsClusterMode,
                   disc, shutVars, conn, harnessVars, lifeVars>>

\* Number of endpoints a caller of AddProxy chooses from and of proxies it
\* adds; it has one local port more to choose from.
MaxApiEndpoints == 2

\* Any caller of AddProxy: an endpoint and a local port of its choice.
ApiAddProxy ==
    \E i \in 1..MaxApiEndpoints, p \in 0..MaxApiEndpoints,
       providerOk \in BOOLEAN, listenOk \in BOOLEAN :
        /\ Len(proxies) < MaxApiEndpoints
        /\ AddProxy(RemoteHost(i), 6379, StartPort + p, providerOk, listenOk)
        /\ UNCHANGED <<mAuthPassword, mAuthorizationMode, mTlsConfig, mIsClusterMode,
                       disc, main, shutVars, conn, harnessVars, lifeVars>>

\* A mutant of DiscoverStart that enables cluster mode before it looks at the
\* number of peers.
DiscoverStart_ClusterModeFirst(queries) ==
    /\ disc.pc = "idle"
    /\ mu = "free"
    /\ \E dialOk \in BOOLEAN, authOk \in BOOLEAN, q \in queries :
         LET remoteAddr == HostPort(RemoteHost(1), 6379)
             nodes == q.res.nodes
             newNodes == FilterUniqueNodes(nodes, remoteAddr)
             auth == IF mAuthPassword # <<>> THEN "password"
                     ELSE IF mTokenSource THEN "token" ELSE "none"
             mustAuth == auth # "none"
         IN  IF ~dialOk
             THEN /\ disc' = DiscReturn(0, "failed to connect to primary endpoint")
                  /\ UNCHANGED mIsClusterMode
             ELSE IF mustAuth /\ ~authOk
             THEN /\ disc' = [DiscReturn(0, "authentication failed")
                                EXCEPT !.auth = auth]
                  /\ UNCHANGED mIsClusterMode
             ELSE IF q.res.st = "panic"
             THEN /\ disc' = [DiscIdle EXCEPT !.pc = "panicked", !.auth = auth,
                                              !.reply = q.reply,
                                              !.err = q.res.err]
                  /\ UNCHANGED mIsClusterMode
             ELSE IF q.res.st = "error"
             THEN /\ disc' = [DiscReturn(0, "failed to discover cluster topology: "
                                                \o q.res.err)
                                EXCEPT !.auth = auth, !.reply = q.reply]
                  /\ UNCHANGED mIsClusterMode
             ELSE IF Len(nodes) = 0
             THEN /\ disc' = [DiscReturn(0, "no cluster nodes found")
                                EXCEPT !.auth = auth, !.reply = q.reply]
                  /\ UNCHANGED mIsClusterMode
             ELSE IF Len(newNodes) = 0
             THEN /\ disc' = [DiscReturn(0, "")
                                EXCEPT !.auth = auth, !.reply = q.reply]
                  /\ mIsClusterMode' = TRUE
             ELSE /\ mIsClusterMode' = TRUE
                  /\ disc' = [DiscIdle EXCEPT !.pc = "adding", !.auth = auth,
                                              !.reply = q.reply,
                                              !.newNodes = newNodes]
    /\ UNCHANGED <<mAuthPassword, mAuthorizationMode, mTokenSource, mNodeMap,
                   proxies, shutVars, conn, harnessVars,
                   lifeVars, mTlsConfig, main>>

\* DiscoverAndAddClusterNodes(ctx, primaryEndpoint, startPort) up to its first
\* m.mu.Unlock(): the dial, the authentication and the topology query on the
\* dedicated connection, and the filtering.  queries holds the answers the
\* queried node may give with what DiscoverClusterTopology makes of each.
DiscoverStart(queries) ==
    /\ disc.pc = "idle"
    /\ mu = "free"
    /\ \E dialOk \in BOOLEAN, authOk \in BOOLEAN, q \in queries :
         LET remoteAddr == HostPort(RemoteHost(1), 6379)
             nodes == q.res.nodes
             newNodes == FilterUniqueNodes(nodes, remoteAddr)
             auth == IF mAuthPassword # <<>> THEN "password"
                     ELSE IF mTokenSource THEN "token" ELSE "none"
             mustAuth == auth # "none"
         IN  IF ~dialOk
             THEN /\ disc' = DiscReturn(0, "failed to connect to primary endpoint")
                  /\ UNCHANGED mIsClusterMode
             ELSE IF mustAuth /\ ~authOk
             THEN /\ disc' = [DiscReturn(0, "authentication failed")
                                EXCEPT !.auth = auth]
                  /\ UNCHANGED mIsClusterMode
             ELSE IF q.res.st = "panic"
             THEN /\ disc' = [DiscIdle EXCEPT !.pc = "panicked", !.auth = auth,
                                              !.reply = q.reply,
                                              !.err = q.res.err]
                  /\ UNCHANGED mIsClusterMode
             ELSE IF q.res.st = "error"
             THEN /\ disc' = [DiscReturn(0, "failed to discover cluster topology: "
                                                \o q.res.err)
                                EXCEPT !.auth = auth, !.reply = q.reply]
                  /\ UNCHANGED mIsClusterMode
             ELSE IF Len(nodes) = 0
             THEN /\ disc' = [DiscReturn(0, "no cluster nodes found")
                                EXCEPT !.auth = auth, !.reply = q.reply]
                  /\ UNCHANGED mIsClusterMode
             ELSE IF Len(newNodes) = 0
             THEN /\ disc' = [DiscReturn(0, "")
                                EXCEPT !.auth = auth, !.reply = q.reply]
                  /\ UNCHANGED mIsClusterMode
             ELSE /\ mIsClusterMode' = TRUE
                  /\ disc' = [DiscIdle EXCEPT !.pc = "adding", !.auth = auth,
                                              !.reply = q.reply,
                                              !.newNodes = newNodes]
    /\ UNCHANGED <<mAuthPassword, mAuthorizationMode, mTokenSource, mNodeMap,
                   proxies, shutVars, conn, harnessVars,
                   lifeVars, mTlsConfig, main>>

\* A mutant of DiscoverAddPeer that returns at the first AddProxy error.
DiscoverAddPeer_StopOnError ==
    /\ disc.pc = "adding"
    /\ \E providerOk \in BOOLEAN, listenOk \in BOOLEAN :
         LET node == disc.newNodes[disc.i + 1]
             startPort == StartPort + MaxEndpoints
             ok == AddProxyOk(providerOk, listenOk)
             count == disc.addedCount + (IF ok THEN 1 ELSE 0)
             calls == Append(disc.calls,
                             [host |-> extractHost(node.Address), port |-> node.Port,
                              localPort |-> startPort + disc.i, ok |-> ok])
         IN  /\ AddProxy(extractHost(node.Address), node.Port, startPort + disc.i,
                         providerOk, listenOk)
             /\ disc' = [disc EXCEPT
                           !.pc = IF disc.i + 1 = Len(disc.newNodes) \/ ~ok
                                  THEN "returned" ELSE "adding",
                           !.i = disc.i + 1, !.addedCount = count, !.calls = calls]
    /\ UNCHANGED <<mAuthPassword, mAuthorizationMode, mIsClusterMode, shutVars,
                   conn, harnessVars,
                   lifeVars, mTlsConfig, main>>

\* One turn of the loop over newNodes: AddProxy for the i-th peer on
\* startPort + i, then the return after the last one.
DiscoverAddPeer ==
    /\ disc.pc = "adding"
    /\ \E providerOk \in BOOLEAN, listenOk \in BOOLEAN :
         LET node == disc.newNodes[disc.i + 1]
             startPort == StartPort + MaxEndpoints
             ok == AddProxyOk(providerOk, listenOk)
             count == disc.addedCount + (IF ok THEN 1 ELSE 0)
             calls == Append(disc.calls,
                             [host |-> extractHost(node.Address), port |-> node.Port,
                              localPort |-> startPort + disc.i, ok |-> ok])
         IN  /\ AddProxy(extractHost(node.Address), node.Port, startPort + disc.i,
                         providerOk, listenOk)
             /\ disc' = [disc EXCEPT
                           !.pc = IF disc.i + 1 = Len(disc.newNodes)
                                  THEN "returned" ELSE "adding",
                           !.i = disc.i + 1, !.addedCount = count, !.calls = calls]
    /\ UNCHANGED <<mAuthPassword, mAuthorizationMode, mIsClusterMode, shutVars,
                   conn, harnessVars,
                   lifeVars, mTlsConfig, main>>

(***************************************************************************)
(* Connection pipeline: Proxy.handleConnection for one accepted client     *)
(***************************************************************************)
\* Bytes the client sends on the connection.
MaxClientBytes == 2

\* RESP values the remote sends while the pipeline relays.
MaxRemoteValues == 2

\* make([]byte, 1024), the buffer of the one read of the AUTH reply
AuthBufSize == 1024

OK_ == <<"+", "O", "K", "\r", "\n">>

\* A mutant of AuthCmd that sends the length of the whole line, CR LF included.
AuthCmd_LenWithCRLF(credential) ==
    <<"*", "2", "\r", "\n", "$", "4", "\r", "\n", "A", "U", "T", "H", "\r", "\n", "$">>
        \o Itoa(Len(credential) + 2) \o CRLF \o credential \o CRLF

\* fmt.Sprintf("*2\r\n$4\r\nAUTH\r\n$%d\r\n%s\r\n", len(credential), credential)
AuthCmd(credential) ==
    <<"*", "2", "\r", "\n", "$", "4", "\r", "\n", "A", "U", "T", "H", "\r", "\n", "$">>
        \o Itoa(Len(credential)) \o CRLF \o credential \o CRLF

\* A mutant of AuthAccepted that wants the reply to be the five bytes alone.
AuthAccepted_Exact(respStr) == respStr = OK_

\* len(respStr) >= 5 && respStr[:5] == "+OK\r\n"
AuthAccepted(respStr) == Len(respStr) >= 5 /\ SubSeq(respStr, 1, 5) = OK_

\* What the one read of the AUTH reply may return: the reply, the reply with
\* more bytes behind it, refusals, and replies cut short.
AuthReplies ==
    { OK_,
      OK_ \o <<":", "1", "\r", "\n">>,
      <<"-", "E", "R", "R", "\r", "\n">>,
      <<"+", "O", "K">>,
      <<"+", "O", "K", "\r">>,
      <<"+", "O", "K", "A", "Y", "\r", "\n">>,
      <<"+", "o", "k", "\r", "\n">>,
      <<"-">> \o OK_ }

\* The replies the remote gives in the whole-system specification.
BasicAuthReplies == { OK_, <<"-", "E", "R", "R", "\r", "\n">> }

\* Encodings of well-formed RESP values, canonical and not.
WellFormedWire ==
    { Serialize(MkSimple(<<"O", "K">>)),
      Serialize(MkError(MOVED_ \o Slot \o <<" ">> \o RemoteAddrOf(2))),
      Serialize(MkBulk(<<"a", "\r", "\n", "b">>)),
      Serialize(MkArray(<<MkError(MOVED_ \o Slot \o <<" ">> \o RemoteAddrOf(2)), MkInt(7)>>)),
      <<":", "+", "1", "\r", "\n">> }

\* A first byte that is no RESP type.
MalformedWire == { <<"?", "\r", "\n">> }

RelayWire == WellFormedWire \cup MalformedWire

\* One reply of each kind of framing error: a first byte that is no RESP type,
\* a line whose LF has no CR before it, an integer, a bulk length and an array
\* count that are no numbers, a bulk string whose terminator is not CR LF, and
\* an array with a malformed element.
FramingErrorWire ==
    { <<"?", "\r", "\n">>,
      <<"+", "O", "K", "\n">>,
      <<":", "x", "\r", "\n">>,
      <<"$", "x", "\r", "\n">>,
      <<"*", "x", "\r", "\n">>,
      <<"$", "1", "\r", "\n", "a", "X", "Y">>,
      <<"*", "1", "\r", "\n", "?", "\r", "\n">> }

\* A redirect to a mapped node as a reply of its own, as an element of an
\* array, and as an element of an array inside an array.
NestedWire ==
    LET moved == MkError(MOVED_ \o Slot \o <<" ">> \o RemoteAddrOf(2))
    IN  { Serialize(moved),
          Serialize(MkArray(<<moved, MkInt(7)>>)),
          Serialize(MkArray(<<MkArray(<<MkSimple(<<"O", "K">>), moved>>)>>)) }

\* The replies of a remote that sends well-formed and malformed values.
CorruptWire == { Serialize(MkSimple(<<"O", "K">>)) } \cup FramingErrorWire

\* The reply the remote gives in the whole-system specification: a redirect to
\* the first node discovery can add.
BasicWire ==
    { Serialize(MkError(MOVED_ \o Slot \o <<" ">> \o RemoteAddrOf(MaxEndpoints + 1))) }

\* The i-th byte the client sends; neighbours differ, so that a byte lost,
\* doubled or out of place shows.
ClientByte(i) == <<"a", "b", "c", "d">>[((i - 1) % 4) + 1]

ConnFree ==
    [pc |-> "Free", proxy |-> 0, cred |-> <<>>, getTokenCalls |-> 0,
     clientConn |-> "none", remoteConn |-> "none",
     clientSent |-> <<>>, fromClient |-> <<>>, clientEOF |-> FALSE, toRemote |-> <<>>,
     authReplied |-> FALSE, authRead |-> <<>>,
     remoteSent |-> <<>>, fromRemote |-> <<>>, remoteEOF |-> FALSE, toClient |-> <<>>,
     relayed |-> <<>>, c2s |-> "idle", s2c |-> "idle", trace |-> <<>>]

ConnInit == conn = ConnFree

\* The Proxy the connection was accepted by.
P == proxies[conn.proxy]

\* handleConnection returns: the deferred remoteConn.Close(), clientConn.Close()
\* and connections.Done() run.
Closed(c) ==
    [c EXCEPT !.pc = "Closed", !.clientConn = "closed",
              !.remoteConn = IF c.remoteConn = "open" THEN "closed" ELSE c.remoteConn,
              !.trace = Append(c.trace, "Closed")]

Relaying(c) ==
    [c EXCEPT !.pc = "Relaying", !.c2s = "run", !.s2c = "run",
              !.trace = Append(c.trace, "Relaying")]

\* acceptConnections: Accept returned a client connection of Proxy k;
\* connections.Add(1); go handleConnection.
Accept ==
    /\ conn.pc = "Free"
    /\ \E k \in 1..Len(proxies) :
         /\ proxies[k].listenerCloses = 0
         /\ conn' = [conn EXCEPT !.pc = "Accepted", !.proxy = k, !.clientConn = "open",
                              !.trace = <<"Accepted">>]
    /\ UNCHANGED <<mgrVars, harnessVars, lifeVars>>

\* handleConnection reaches tls.DialWithDialer / net.DialTimeout.
DialStart ==
    /\ conn.pc = "Accepted"
    /\ conn' = [conn EXCEPT !.pc = "Dialing", !.trace = Append(conn.trace, "Dialing")]
    /\ UNCHANGED <<mgrVars, harnessVars, lifeVars>>

\* A mutant of AfterDial that prefers the token source to the password.
AfterDial_TokenFirst(c) ==
    IF P.tokenSource
    THEN [c EXCEPT !.pc = "AuthToken", !.trace = Append(c.trace, "Authenticating")]
    ELSE IF P.authPassword # <<>>
    THEN [c EXCEPT !.pc = "AuthWrite", !.cred = P.authPassword,
                   !.trace = Append(c.trace, "Authenticating")]
    ELSE Relaying(c)

\* The branch after a successful dial: password first, then the token source,
\* else straight to the relay.
AfterDial(c) ==
    IF P.authPassword # <<>>
    THEN [c EXCEPT !.pc = "AuthWrite", !.cred = P.authPassword,
                   !.trace = Append(c.trace, "Authenticating")]
    ELSE IF P.tokenSource
    THEN [c EXCEPT !.pc = "AuthToken", !.trace = Append(c.trace, "Authenticating")]
    ELSE Relaying(c)

\* The dial returns.
DialDone ==
    /\ conn.pc = "Dialing"
    /\ \E ok \in BOOLEAN :
         conn' = IF ok THEN AfterDial([conn EXCEPT !.remoteConn = "open"])
                 ELSE Closed(conn)
    /\ UNCHANGED <<mgrVars, harnessVars, lifeVars>>

\* authenticateIAM: p.tokenSource.GetToken(ctx)
AuthGetToken ==
    /\ conn.pc = "AuthToken"
    /\ \E ok \in BOOLEAN :
         LET c == [conn EXCEPT !.getTokenCalls = conn.getTokenCalls + 1]
         IN  conn' = IF ok THEN [c EXCEPT !.pc = "AuthWrite", !.cred = Token]
                     ELSE Closed(c)
    /\ UNCHANGED <<mgrVars, harnessVars, lifeVars>>

\* authenticatePassword / authenticateIAM: conn.Write([]byte(authCmd))
AuthWrite ==
    /\ conn.pc = "AuthWrite"
    /\ \E ok \in BOOLEAN :
         conn' = IF ok THEN [conn EXCEPT !.pc = "AuthRead",
                                         !.toRemote = conn.toRemote \o AuthCmd(conn.cred)]
                 ELSE Closed(conn)
    /\ UNCHANGED <<mgrVars, harnessVars, lifeVars>>

\* The remote answers the AUTH command with one of replies.
RemoteAuthReply(replies) ==
    /\ conn.pc = "AuthRead"
    /\ ~conn.authReplied
    /\ \E r \in replies :
         conn' = [conn EXCEPT !.authReplied = TRUE, !.fromRemote = conn.fromRemote \o r]
    /\ UNCHANGED <<mgrVars, harnessVars, lifeVars>>

\* authenticatePassword / authenticateIAM: the one conn.Read(response) and the
\* test of what it returned; with nothing to read the deadline ends it.
AuthRead ==
    /\ conn.pc = "AuthRead"
    /\ IF conn.fromRemote = <<>>
       THEN conn' = Closed(conn)
       ELSE LET n == Min(Len(conn.fromRemote), AuthBufSize)
                respStr == SubSeq(conn.fromRemote, 1, n)
                c == [conn EXCEPT !.authRead = respStr,
                                  !.fromRemote = SubSeq(conn.fromRemote, n + 1,
                                                        Len(conn.fromRemote))]
            IN  conn' = IF AuthAccepted(respStr) THEN Relaying(c) ELSE Closed(c)
    /\ UNCHANGED <<mgrVars, harnessVars, lifeVars>>

\* The client -> server goroutine of both relays: io.Copy(remoteConn, clientConn)
\* moves what the client has sent; a write to a remote that went away fails.
CopyClientToServer ==
    /\ conn.pc = "Relaying"
    /\ conn.c2s = "run"
    /\ \/ /\ conn.fromClient # <<>>
          /\ conn' = IF conn.remoteEOF
                     THEN [conn EXCEPT !.fromClient = <<>>, !.c2s = "done"]
                     ELSE [conn EXCEPT !.fromClient = <<>>,
                                       !.toRemote = conn.toRemote \o conn.fromClient]
       \/ /\ conn.fromClient = <<>>
          /\ conn.clientEOF
          /\ conn' = [conn EXCEPT !.c2s = "done"]
    /\ UNCHANGED <<mgrVars, harnessVars, lifeVars>>

\* The server -> client goroutine of handleSimpleConnection:
\* io.Copy(clientConn, remoteConn).
CopyServerToClient ==
    /\ conn.pc = "Relaying"
    /\ conn.s2c = "run"
    /\ ~P.isClusterMode
    /\ \/ /\ conn.fromRemote # <<>>
          /\ conn' = IF conn.clientEOF
                     THEN [conn EXCEPT !.fromRemote = <<>>, !.s2c = "done"]
                     ELSE [conn EXCEPT !.fromRemote = <<>>,
                                       !.toClient = conn.toClient \o conn.fromRemote]
       \/ /\ conn.fromRemote = <<>>
          /\ conn.remoteEOF
          /\ conn' = [conn EXCEPT !.s2c = "done"]
    /\ UNCHANGED <<mgrVars, harnessVars, lifeVars>>

\* The value with every redirect in it rewritten, at any depth.
RECURSIVE RewriteNested(_, _)
RewriteNested(v, nodeMap) ==
    IF v.Type = Array /\ ~v.Null
    THEN [v EXCEPT !.Array = [i \in 1..Len(v.Array) |->
                                 RewriteNested(v.Array[i], nodeMap)]]
    ELSE RewriteRedirectError(v, nodeMap).v

\* A mutant of proxyServerResponses that rewrites the redirects inside arrays
\* too.
proxyServerResponses_RewriteNested ==
    /\ conn.pc = "Relaying"
    /\ conn.s2c = "run"
    /\ P.isClusterMode
    /\ LET r == ReadValue(conn.fromRemote)
       IN  \/ /\ r.st = "ok"
              /\ LET value == RewriteNested(r.val, mNodeMap)
                     data == Serialize(value)
                 IN  conn' = IF conn.clientEOF
                             THEN [conn EXCEPT !.fromRemote = r.rest, !.s2c = "done"]
                             ELSE [conn EXCEPT !.fromRemote = r.rest,
                                               !.toClient = conn.toClient \o data,
                                               !.relayed = Append(conn.relayed, data)]
           \/ /\ r.st = "framing"
              /\ conn' = [conn EXCEPT !.fromRemote = <<>>, !.s2c = "done"]
           \/ /\ r.st = "eof"
              /\ conn.remoteEOF
              /\ conn' = [conn EXCEPT !.fromRemote = <<>>, !.s2c = "done"]
    /\ UNCHANGED <<mgrVars, harnessVars, lifeVars>>

\* A mutant of proxyServerResponses that hands the bytes it could not parse
\* to the client before it gives up.
proxyServerResponses_ForwardMalformed ==
    /\ conn.pc = "Relaying"
    /\ conn.s2c = "run"
    /\ P.isClusterMode
    /\ LET r == ReadValue(conn.fromRemote)
       IN  \/ /\ r.st = "ok"
              /\ LET value == IF IsRedirectError(r.val)
                              THEN RewriteRedirectError(r.val, mNodeMap).v
                              ELSE r.val
                     data == Serialize(value)
                 IN  conn' = IF conn.clientEOF
                             THEN [conn EXCEPT !.fromRemote = r.rest, !.s2c = "done"]
                             ELSE [conn EXCEPT !.fromRemote = r.rest,
                                               !.toClient = conn.toClient \o data,
                                               !.relayed = Append(conn.relayed, data)]
           \/ /\ r.st = "framing"
              /\ conn' = [conn EXCEPT !.fromRemote = <<>>, !.s2c = "done",
                                      !.toClient = conn.toClient \o conn.fromRemote]
           \/ /\ r.st = "eof"
              /\ conn.remoteEOF
              /\ conn' = [conn EXCEPT !.fromRemote = <<>>, !.s2c = "done"]
    /\ UNCHANGED <<mgrVars, harnessVars, lifeVars>>

\* A mutant of proxyServerResponses whose reader does not move past the value
\* it has read.
proxyServerResponses_Reread ==
    /\ conn.pc = "Relaying"
    /\ conn.s2c = "run"
    /\ P.isClusterMode
    /\ LET r == ReadValue(conn.fromRemote)
       IN  \/ /\ r.st = "ok"
              /\ LET value == IF IsRedirectError(r.val)
                              THEN RewriteRedirectError(r.val, mNodeMap).v
                              ELSE r.val
                     data == Serialize(value)
                 IN  conn' = [conn EXCEPT !.toClient = conn.toClient \o data,
                                          !.relayed = Append(conn.relayed, data)]
           \/ /\ r.st = "framing"
              /\ conn' = [conn EXCEPT !.fromRemote = <<>>, !.s2c = "done"]
           \/ /\ r.st = "eof"
              /\ conn.remoteEOF
              /\ conn' = [conn EXCEPT !.fromRemote = <<>>, !.s2c = "done"]
    /\ UNCHANGED <<mgrVars, harnessVars, lifeVars>>

\* One turn of the loop of proxyServerResponses, the server -> client goroutine
\* of handleClusterConnection: ReadValue blocks until the stream holds one whole
\* value, fails on a framing error or when the stream ends; a redirect is
\* rewritten through the shared node map; the value is serialized to the client.
proxyServerResponses ==
    /\ conn.pc = "Relaying"
    /\ conn.s2c = "run"
    /\ P.isClusterMode
    /\ LET r == ReadValue(conn.fromRemote)
       IN  \/ /\ r.st = "ok"
              /\ LET value == IF IsRedirectError(r.val)
                              THEN RewriteRedirectError(r.val, mNodeMap).v
                              ELSE r.val
                     data == Serialize(value)
                 IN  conn' = IF conn.clientEOF
                             THEN [conn EXCEPT !.fromRemote = r.rest, !.s2c = "done"]
                             ELSE [conn EXCEPT !.fromRemote = r.rest,
                                               !.toClient = conn.toClient \o data,
                                               !.relayed = Append(conn.relayed, data)]
           \/ /\ r.st = "framing"
              /\ conn' = [conn EXCEPT !.fromRemote = <<>>, !.s2c = "done"]
           \/ /\ r.st = "eof"
              /\ conn.remoteEOF
              /\ conn' = [conn EXCEPT !.fromRemote = <<>>, !.s2c = "done"]
    /\ UNCHANGED <<mgrVars, harnessVars, lifeVars>>

\* A mutant of RelayExit that waits for the results of both goroutines.
RelayExit_BothDone ==
    /\ conn.pc = "Relaying"
    /\ conn.c2s = "done" /\ conn.s2c = "done"
    /\ conn' = Closed(conn)
    /\ UNCHANGED <<mgrVars, harnessVars, lifeVars>>

\* handleSimpleConnection / handleClusterConnection: <-errChan returns once
\* either goroutine has sent its result, and handleConnection returns.
RelayExit ==
    /\ conn.pc = "Relaying"
    /\ conn.c2s = "done" \/ conn.s2c = "done"
    /\ conn' = Closed(conn)
    /\ UNCHANGED <<mgrVars, harnessVars, lifeVars>>

\* errChan := make(chan error, 2)
ErrChanCap == 2

\* The results in errChan: one of each goroutine that has ended, less the one
\* the receive in handleSimpleConnection / handleClusterConnection took.
ErrChanLen(c) ==
    (IF c.c2s = "done" THEN 1 ELSE 0) + (IF c.s2c = "done" THEN 1 ELSE 0)
        - (IF c.pc = "Closed" /\ c.c2s # "idle" THEN 1 ELSE 0)

\* A mutant of CanSend for a channel without buffer: the send goes through
\* only while the receive waits for it.
CanSend_Unbuffered(c) == c.pc = "Relaying" /\ ErrChanLen(c) = 0

\* errChan <- err goes through while the buffer has room.
CanSend(c) == ErrChanLen(c) < ErrChanCap

\* The goroutine of the other direction after handleConnection has returned:
\* the read of its io.Copy or ReadValue fails on the socket the deferred Close
\* has closed, and it sends its result into errChan.
RelayUnblock ==
    /\ conn.pc = "Closed"
    /\ CanSend(conn)
    /\ \/ /\ conn.c2s = "run"
          /\ conn.clientConn = "closed"
          /\ conn' = [conn EXCEPT !.c2s = "done"]
       \/ /\ conn.s2c = "run"
          /\ conn.remoteConn = "closed"
          /\ conn' = [conn EXCEPT !.s2c = "done"]
    /\ UNCHANGED <<mgrVars, harnessVars, lifeVars>>

\* The client writes its next byte.
ClientSend ==
    /\ conn.clientConn = "open"
    /\ ~conn.clientEOF
    /\ Len(conn.clientSent) < MaxClientBytes
    /\ LET b == ClientByte(Len(conn.clientSent) + 1)
       IN  conn' = [conn EXCEPT !.clientSent = Append(conn.clientSent, b),
                                !.fromClient = Append(conn.fromClient, b)]
    /\ UNCHANGED <<mgrVars, harnessVars, lifeVars>>

\* The client disconnects.
ClientClose ==
    /\ conn.clientConn = "open"
    /\ ~conn.clientEOF
    /\ conn' = [conn EXCEPT !.clientEOF = TRUE]
    /\ UNCHANGED <<mgrVars, harnessVars, lifeVars>>

\* The remote sends one reply out of wire while the pipeline relays.
RemoteSend(wire) ==
    /\ conn.pc = "Relaying"
    /\ ~conn.remoteEOF
    /\ Len(conn.remoteSent) < MaxRemoteValues
    /\ \E w \in wire :
         conn' = [conn EXCEPT !.remoteSent = Append(conn.remoteSent, w),
                              !.fromRemote = conn.fromRemote \o w]
    /\ UNCHANGED <<mgrVars, harnessVars, lifeVars>>

\* The remote closes the connection.
RemoteClose ==
    /\ conn.remoteConn = "open"
    /\ ~conn.remoteEOF
    /\ conn' = [conn EXCEPT !.remoteEOF = TRUE]
    /\ UNCHANGED <<mgrVars, harnessVars, lifeVars>>

\* The steps of handleConnection and of the two peers of the connection, the
\* remote answering out of authReplies and wire.
Pipeline(authReplies, wire) ==
    \/ Accept
    \/ DialStart
    \/ DialDone
    \/ AuthGetToken
    \/ AuthWrite
    \/ RemoteAuthReply(authReplies)
    \/ AuthRead
    \/ CopyClientToServer
    \/ CopyServerToClient
    \/ proxyServerResponses
    \/ RelayExit
    \/ RelayUnblock
    \/ ClientSend
    \/ ClientClose
    \/ RemoteSend(wire)
    \/ RemoteClose

(***************************************************************************)
(* Shutdown: Proxy.Shutdown and Manager.Shutdown                           *)
(***************************************************************************)
\* connections.Wait() of Proxy k returns: no handleConnection of it is running.
Drained(k) == ~(conn.proxy = k /\ conn.pc \notin {"Free", "Closed"})

\* Someone calls Shutdown of Proxy k.
ShutdownCall ==
    /\ \E c \in 1..MaxCallers, k \in 1..Len(proxies) :
         /\ callers[c].pc = "idle"
         /\ callers' = [callers EXCEPT ![c] = [pc |-> "called", proxy |-> k, by |-> ""]]
    /\ UNCHANGED <<mAuthPassword, mAuthorizationMode, mTokenSource, mIsClusterMode,
                   mNodeMap, proxies, disc, mu, mshut, conn, harnessVars,
                   lifeVars, mTlsConfig, main>>

\* A mutant of OnceDo that runs the function for every caller.
OnceDo_EveryCall(c) ==
    /\ callers[c].pc = "called"
    /\ proxies' = [proxies EXCEPT ![callers[c].proxy].shutdownOnce = "running"]
    /\ callers' = [callers EXCEPT ![c].pc = "closing"]
    /\ UNCHANGED <<mAuthPassword, mAuthorizationMode, mTokenSource, mIsClusterMode,
                   mNodeMap, disc, mu, mshut, conn, harnessVars,
                   lifeVars, mTlsConfig, main>>

\* p.shutdownOnce.Do: the first caller runs the function, a caller that comes
\* while it runs waits for it, a caller that comes later returns at once.
OnceDo(c) ==
    /\ callers[c].pc = "called"
    /\ LET k == callers[c].proxy
       IN  \/ /\ proxies[k].shutdownOnce = "new"
              /\ proxies' = [proxies EXCEPT ![k].shutdownOnce = "running"]
              /\ callers' = [callers EXCEPT ![c].pc = "closing"]
           \/ /\ proxies[k].shutdownOnce = "done"
              /\ callers' = [callers EXCEPT ![c].pc = "returned", ![c].by = "once"]
              /\ UNCHANGED proxies
    /\ UNCHANGED <<mAuthPassword, mAuthorizationMode, mTokenSource, mIsClusterMode,
                   mNodeMap, disc, mu, mshut, conn, harnessVars,
                   lifeVars, mTlsConfig, main>>

\* close(p.shutdown); p.listener.Close()
ShutdownClose(c) ==
    /\ callers[c].pc = "closing"
    /\ LET k == callers[c].proxy
       IN  proxies' = [proxies EXCEPT
                         ![k].shutdownCloses = proxies[k].shutdownCloses + 1,
                         ![k].listenerCloses = proxies[k].listenerCloses + 1]
    /\ callers' = [callers EXCEPT ![c].pc = "waiting"]
    /\ UNCHANGED <<mAuthPassword, mAuthorizationMode, mTokenSource, mIsClusterMode,
                   mNodeMap, disc, mu, mshut, conn, harnessVars,
                   lifeVars, mTlsConfig, main>>

\* A mutant of ShutdownWait that has no timeout.
ShutdownWait_NoTimeout(c) ==
    /\ callers[c].pc = "waiting"
    /\ Drained(callers[c].proxy)
    /\ proxies' = [proxies EXCEPT ![callers[c].proxy].shutdownOnce = "done"]
    /\ callers' = [callers EXCEPT ![c].pc = "returned", ![c].by = "done"]
    /\ UNCHANGED <<mAuthPassword, mAuthorizationMode, mTokenSource, mIsClusterMode,
                   mNodeMap, disc, mu, mshut, conn, harnessVars,
                   lifeVars, mTlsConfig, main>>

\* The select of Shutdown: done is closed once connections.Wait() returned, or
\* the 5 seconds of time.After have passed; the function ends and the Once is
\* done.
ShutdownWait(c) ==
    /\ callers[c].pc = "waiting"
    /\ \E by \in {"done", "timeout"} :
         /\ by = "done" => Drained(callers[c].proxy)
         /\ callers' = [callers EXCEPT ![c].pc = "returned", ![c].by = by]
    /\ proxies' = [proxies EXCEPT ![callers[c].proxy].shutdownOnce = "done"]
    /\ UNCHANGED <<mAuthPassword, mAuthorizationMode, mTokenSource, mIsClusterMode,
                   mNodeMap, disc, mu, mshut, conn, harnessVars,
                   lifeVars, mTlsConfig, main>>

\* The steps of the running Proxy.Shutdown calls.
ProxyShutdownStep ==
    \E c \in 0..MaxCallers : OnceDo(c) \/ ShutdownClose(c) \/ ShutdownWait(c)

\* Manager.Shutdown: m.mu.Lock()
ManagerShutdownStart ==
    /\ mshut.pc = "idle"
    /\ mu = "free"
    /\ mu' = "Shutdown"
    /\ mshut' = [pc |-> "running", i |-> 0]
    /\ UNCHANGED <<mAuthPassword, mAuthorizationMode, mTokenSource, mIsClusterMode,
                   mNodeMap, proxies, disc, callers, conn, harnessVars,
                   lifeVars, mTlsConfig, main>>

\* Manager.Shutdown: the loop over m.proxies calls proxy.Shutdown() of the
\* next Proxy once the call before has returned; after the last one the
\* deferred m.mu.Unlock() runs.
ManagerShutdownLoop ==
    /\ mshut.pc = "running"
    /\ callers[0].pc \in {"idle", "returned"}
    /\ IF mshut.i < Len(proxies)
       THEN /\ mshut' = [mshut EXCEPT !.i = mshut.i + 1]
            /\ callers' = [callers EXCEPT
                             ![0] = [pc |-> "called", proxy |-> mshut.i + 1, by |-> ""]]
            /\ UNCHANGED mu
       ELSE /\ mshut' = [mshut EXCEPT !.pc = "returned"]
            /\ mu' = "free"
            /\ UNCHANGED callers
    /\ UNCHANGED <<mAuthPassword, mAuthorizationMode, mTokenSource, mIsClusterMode,
                   mNodeMap, proxies, disc, conn, harnessVars,
                   lifeVars, mTlsConfig, main>>

(***************************************************************************)
(* Manager.mu: DiscoverAndAddClusterNodes statement by statement           *)
(***************************************************************************)
\* The call before m.mu.Lock(): its position and locals, the result of the
\* AddProxy call of the turn, and the Lock and Unlock calls it has made
\* itself (those inside AddProxy not counted).
LockedIdle ==
    [pc |-> "idle", newNodes |-> <<>>, i |-> 0, addedCount |-> 0, err |-> "",
     ok |-> FALSE, locks |-> 0, unlocks |-> 0]

\* m.mu.Unlock(): sync.Mutex has no owner, so the call frees the mutex whoever
\* locked it; on a mutex that is not locked the runtime stops the process
\* (fatal error: sync: unlock of unlocked mutex).
Unlocked(m) == IF m = "free" THEN "fatal" ELSE "free"

\* What the queried node answers in the statement-by-statement call.
LockQueries == DiscoveryQueries \cup QueriesOf(NegativeReplies)

\* m.mu.Lock() at the entry; defer m.mu.Unlock()
LockedDiscoverLock ==
    /\ disc.pc = "idle"
    /\ mu = "free"
    /\ mu' = "Discover"
    /\ disc' = [disc EXCEPT !.pc = "locked", !.locks = disc.locks + 1]
    /\ UNCHANGED <<mAuthPassword, mAuthorizationMode, mTokenSource, mIsClusterMode,
                   mNodeMap, proxies, mshut, callers, conn, harnessVars,
                   lifeVars, mTlsConfig, main>>

\* The dial, the authentication, DiscoverClusterTopology and FilterUniqueNodes
\* with the mutex held: every return of these lines, the panic of the query,
\* and m.isClusterMode = true before the loop.
LockedDiscoverQuery ==
    /\ disc.pc = "locked"
    /\ \E dialOk \in BOOLEAN, authOk \in BOOLEAN, q \in LockQueries :
         LET remoteAddr == HostPort(RemoteHost(1), 6379)
             nodes == q.res.nodes
             newNodes == FilterUniqueNodes(nodes, remoteAddr)
             mustAuth == mAuthPassword # <<>> \/ mTokenSource
             return(err) == [disc EXCEPT !.pc = "return", !.err = err]
         IN  IF ~dialOk
             THEN /\ disc' = return("failed to connect to primary endpoint")
                  /\ UNCHANGED mIsClusterMode
             ELSE IF mustAuth /\ ~authOk
             THEN /\ disc' = return("authentication failed")
                  /\ UNCHANGED mIsClusterMode
             ELSE IF q.res.st = "panic"
             THEN /\ disc' = [disc EXCEPT !.pc = "panicking", !.err = q.res.err]
                  /\ UNCHANGED mIsClusterMode
             ELSE IF q.res.st = "error"
             THEN /\ disc' = return("failed to discover cluster topology: "
                                       \o q.res.err)
                  /\ UNCHANGED mIsClusterMode
             ELSE IF Len(nodes) = 0
             THEN /\ disc' = return("no cluster nodes found")
                  /\ UNCHANGED mIsClusterMode
             ELSE IF Len(newNodes) = 0
             THEN /\ disc' = return("")
                  /\ UNCHANGED mIsClusterMode
             ELSE /\ mIsClusterMode' = TRUE
                  /\ disc' = [disc EXCEPT !.pc = "loop", !.newNodes = newNodes]
    /\ UNCHANGED <<mAuthPassword, mAuthorizationMode, mTokenSource, mNodeMap,
                   proxies, shutVars, conn, harnessVars,
                   lifeVars, mTlsConfig, main>>

\* The loop has a node left: m.mu.Unlock() before the AddProxy call.
LockedDiscoverUnlock ==
    /\ disc.pc = "loop"
    /\ disc.i < Len(disc.newNodes)
    /\ mu' = Unlocked(mu)
    /\ disc' = [disc EXCEPT !.pc = "call", !.unlocks = disc.unlocks + 1]
    /\ UNCHANGED <<mAuthPassword, mAuthorizationMode, mTokenSource, mIsClusterMode,
                   mNodeMap, proxies, mshut, callers, conn, harnessVars,
                   lifeVars, mTlsConfig, main>>

\* err := m.AddProxy(ctx, endpoint, localPort), which locks the mutex and
\* unlocks it when it returns.
LockedDiscoverAdd ==
    /\ disc.pc = "call"
    /\ \E providerOk \in BOOLEAN, listenOk \in BOOLEAN :
         LET node == disc.newNodes[disc.i + 1]
             startPort == StartPort + MaxEndpoints
         IN  /\ AddProxy(extractHost(node.Address), node.Port, startPort + disc.i,
                         providerOk, listenOk)
             /\ disc' = [disc EXCEPT !.pc = "relock",
                                     !.ok = AddProxyOk(providerOk, listenOk)]
    /\ UNCHANGED <<mAuthPassword, mAuthorizationMode, mIsClusterMode, shutVars,
                   conn, harnessVars, lifeVars, mTlsConfig, main>>

\* A mutant of LockedDiscoverRelock that goes on without m.mu.Lock().
LockedDiscoverRelock_NoLock ==
    /\ disc.pc = "relock"
    /\ disc' = [disc EXCEPT !.pc = "loop", !.i = disc.i + 1,
                            !.addedCount = disc.addedCount + (IF disc.ok THEN 1 ELSE 0)]
    /\ UNCHANGED <<mAuthPassword, mAuthorizationMode, mTokenSource, mIsClusterMode,
                   mNodeMap, proxies, shutVars, conn, harnessVars,
                   lifeVars, mTlsConfig, main>>

\* m.mu.Lock() after AddProxy has returned, then continue or addedCount++.
LockedDiscoverRelock ==
    /\ disc.pc = "relock"
    /\ mu = "free"
    /\ mu' = "Discover"
    /\ disc' = [disc EXCEPT !.pc = "loop", !.i = disc.i + 1,
                            !.locks = disc.locks + 1,
                            !.addedCount = disc.addedCount + (IF disc.ok THEN 1 ELSE 0)]
    /\ UNCHANGED <<mAuthPassword, mAuthorizationMode, mTokenSource, mIsClusterMode,
                   mNodeMap, proxies, mshut, callers, conn, harnessVars,
                   lifeVars, mTlsConfig, main>>

\* A return statement, the end of the loop or the panic: the deferred
\* conn.Close() and m.mu.Unlock() run.
LockedDiscoverReturn ==
    /\ \/ disc.pc \in {"return", "panicking"}
       \/ disc.pc = "loop" /\ disc.i = Len(disc.newNodes)
    /\ mu' = Unlocked(mu)
    /\ disc' = [disc EXCEPT !.pc = IF disc.pc = "panicking" THEN "panicked"
                                   ELSE "returned",
                            !.unlocks = disc.unlocks + 1]
    /\ UNCHANGED <<mAuthPassword, mAuthorizationMode, mTokenSource, mIsClusterMode,
                   mNodeMap, proxies, mshut, callers, conn, harnessVars,
                   lifeVars, mTlsConfig, main>>

\* The statements of the call behind the topology query: the loop with its
\* AddProxy calls and the return.
LockedDiscoverLoop ==
    \/ LockedDiscoverUnlock
    \/ LockedDiscoverAdd
    \/ LockedDiscoverRelock
    \/ LockedDiscoverReturn

(***************************************************************************)
(* One Proxy from its creation to the return of Shutdown: Start, the       *)
(* accept loop statement by statement, the handleConnection goroutines by  *)
(* the path they take, the WaitGroup p.connections, and a later AddProxy   *)
(* call of the manager writing the node map this Proxy's relays read.      *)
(***************************************************************************)
\* Client connections the listener hands out.
MaxConns == 3

\* Calls of Proxy.Shutdown.
MaxShutdownCalls == 2

restVars == <<harnessVars, mgrVars, conn>>

\* The remote address of the Proxy and the one the later AddProxy call adds.
OwnKey == "10.0.0.1:6379"
PeerKey == "10.0.0.2:6379"

\* A connection the listener has not handed out yet.
PipeFree ==
    [pc |-> "Free", client |-> "none", remote |-> "none",
     adds |-> 0, dones |-> 0, dials |-> 0, lookup |-> "none", exit |-> ""]

\* AddProxy's Proxy literal before Start: no listener, an open shutdown
\* channel, a zero WaitGroup; the manager's map holds this Proxy's entry once
\* Start succeeded.
LifeInit ==
    /\ inst \in { [listener |-> "nil", shutdown |-> "open", connections |-> 0,
                   loop |-> "none", err |-> "none", isClusterMode |-> cluster,
                   once |-> FALSE, calls |-> 0, call |-> "none",
                   waiter |-> "none", by |-> "", closes |-> 0,
                   nodeMap |-> {}, raced |-> FALSE, crashed |-> FALSE]
                  : cluster \in BOOLEAN }
    /\ pipes = [c \in 1..MaxConns |-> PipeFree]
    /\ adder = "none"

\* The process has not been ended by the runtime.
Alive == ~inst.crashed

\* Proxy.Start as AddProxy calls it: net.Listen fails and the Proxy is dropped,
\* or the listener is stored, the accept loop goroutine is started and AddProxy
\* records the Proxy's map entry.
Start ==
    /\ Alive
    /\ inst.listener = "nil"
    /\ inst.loop = "none"
    /\ \E ok \in BOOLEAN :
          inst' = IF ok
                  THEN [inst EXCEPT !.listener = "open", !.loop = "select",
                                    !.nodeMap = {OwnKey}]
                  ELSE [inst EXCEPT !.loop = "dropped"]
    /\ adder' = IF inst'.listener = "open" THEN "idle" ELSE adder
    /\ UNCHANGED <<pipes, restVars>>

\* acceptConnections, top of the loop: return when p.shutdown is closed, else
\* set the one second deadline and call Accept.
AcceptSelect ==
    /\ Alive
    /\ inst.loop = "select"
    /\ inst' = [inst EXCEPT !.loop = IF inst.shutdown = "closed"
                                     THEN "exited" ELSE "accept",
                            !.err = "none"]
    /\ UNCHANGED <<pipes, adder, restVars>>

\* Accept fails with a timeout: continue.
AcceptTimeout ==
    /\ Alive
    /\ inst.loop = "accept"
    /\ inst.listener = "open"
    /\ inst' = [inst EXCEPT !.loop = "select", !.err = "timeout"]
    /\ UNCHANGED <<pipes, adder, restVars>>

\* Accept fails with another error (the listener was closed, or the system
\* refuses): return when p.shutdown is closed, else log and continue.
AcceptError ==
    /\ Alive
    /\ inst.loop = "accept"
    /\ inst' = [inst EXCEPT !.loop = IF inst.shutdown = "closed"
                                     THEN "exited" ELSE "select",
                            !.err = "fatal"]
    /\ UNCHANGED <<pipes, adder, restVars>>

\* The connection the loop holds between Accept and the go statement.
Held(c) == pipes[c].pc \in {"Accepted", "Counted"}

\* Accept returns the next client connection.
AcceptConn ==
    /\ Alive
    /\ inst.loop = "accept"
    /\ inst.listener = "open"
    /\ \E c \in 1..MaxConns :
          /\ pipes[c].pc = "Free"
          /\ \A b \in 1..(c - 1) : pipes[b].pc # "Free"
          /\ pipes' = [pipes EXCEPT ![c].pc = "Accepted", ![c].client = "open"]
    /\ inst' = [inst EXCEPT !.loop = "add"]
    /\ UNCHANGED <<adder, restVars>>

\* p.connections.Add(1)
AcceptAdd ==
    /\ Alive
    /\ inst.loop = "add"
    /\ \E c \in 1..MaxConns :
          /\ Held(c)
          /\ pipes' = [pipes EXCEPT ![c].pc = "Counted",
                                    ![c].adds = pipes[c].adds + 1]
    /\ inst' = [inst EXCEPT !.loop = "go",
                            !.connections = inst.connections + 1]
    /\ UNCHANGED <<adder, restVars>>

\* The accept loop calling handleConnection itself.
AcceptGo_Inline ==
    /\ Alive
    /\ inst.loop = "go"
    /\ \E c \in 1..MaxConns :
          /\ Held(c)
          /\ pipes' = [pipes EXCEPT ![c].pc = "Dialing"]
    /\ inst' = [inst EXCEPT !.loop = "handling"]
    /\ UNCHANGED <<adder, restVars>>

\* go p.handleConnection(clientConn), and the loop goes on.
AcceptGo ==
    /\ Alive
    /\ inst.loop = "go"
    /\ \E c \in 1..MaxConns :
          /\ Held(c)
          /\ pipes' = [pipes EXCEPT ![c].pc = "Dialing"]
    /\ inst' = [inst EXCEPT !.loop = "select"]
    /\ UNCHANGED <<adder, restVars>>

\* handleConnection returning without p.connections.Done() after a failed dial.
PipeReturn_NoDoneOnDialFailure(p, reason) ==
    [p EXCEPT !.pc = "Closed",
              !.remote = IF p.remote = "open" THEN "closed" ELSE p.remote,
              !.client = "closed",
              !.dones = IF reason = "dial" THEN p.dones ELSE p.dones + 1,
              !.exit = reason]

\* handleConnection returns: the deferred calls run in reverse order,
\* remoteConn.Close() when the dial had succeeded, clientConn.Close(),
\* p.connections.Done().
PipeReturn(p, reason) ==
    [p EXCEPT !.pc = "Closed",
              !.remote = IF p.remote = "open" THEN "closed" ELSE p.remote,
              !.client = "closed",
              !.dones = p.dones + 1,
              !.exit = reason]

\* The WaitGroup after the return of pipeline c.
Released(c) ==
    [inst EXCEPT !.connections = inst.connections -
                                 (pipes'[c].dones - pipes[c].dones)]

\* handleConnection, the dial (TLS or plain, five seconds): on failure log
\* and return.
PipeDial(results) ==
    /\ Alive
    /\ \E c \in 1..MaxConns, ok \in results :
          /\ pipes[c].pc = "Dialing"
          /\ pipes' = [pipes EXCEPT
                         ![c] = IF ok
                                THEN [pipes[c] EXCEPT !.pc = "Authenticating",
                                                      !.remote = "open",
                                                      !.dials = pipes[c].dials + 1]
                                ELSE PipeReturn([pipes[c] EXCEPT
                                                   !.dials = pipes[c].dials + 1],
                                                "dial")]
          /\ inst' = Released(c)
    /\ UNCHANGED <<adder, restVars>>

\* handleConnection, the authentication if one is configured: on a failed
\* token fetch or a refused AUTH log and return, else go on to the relay.
PipeAuth(results) ==
    /\ Alive
    /\ \E c \in 1..MaxConns, r \in results :
          /\ pipes[c].pc = "Authenticating"
          /\ pipes' = [pipes EXCEPT
                         ![c] = IF r = "ok"
                                THEN [pipes[c] EXCEPT !.pc = "Relaying"]
                                ELSE PipeReturn(pipes[c], r)]
          /\ inst' = Released(c)
    /\ UNCHANGED <<adder, restVars>>

\* handleSimpleConnection or handleClusterConnection returns: a copy direction
\* ended, or the reply stream could not be parsed.
PipeRelayEnd(reasons) ==
    /\ Alive
    /\ \E c \in 1..MaxConns, r \in reasons :
          /\ pipes[c].pc = "Relaying"
          /\ pipes[c].lookup # "reading"
          /\ r = "framing" => inst.isClusterMode
          /\ pipes' = [pipes EXCEPT ![c] = PipeReturn(pipes[c], r)]
          /\ inst' = Released(c)
    /\ UNCHANGED <<adder, restVars>>

\* A write of the map by AddProxy is under way.
Writing == adder = "writing"

\* proxyServerResponses, RewriteRedirectError on a redirect to the peer: the
\* read of p.nodeMap begins; no lock is taken.
PipeLookupBegin ==
    /\ Alive
    /\ inst.isClusterMode
    /\ \E c \in 1..MaxConns :
          /\ pipes[c].pc = "Relaying"
          /\ pipes[c].lookup = "none"
          /\ pipes' = [pipes EXCEPT ![c].lookup = "reading"]
    /\ inst' = [inst EXCEPT !.raced = inst.raced \/ Writing]
    /\ UNCHANGED <<adder, restVars>>

\* The read ends. A read that overlapped a write of the map has any outcome:
\* the entry or none, or the runtime ends the process.
PipeLookupEnd ==
    /\ Alive
    /\ \E c \in 1..MaxConns :
          /\ pipes[c].lookup = "reading"
          /\ \E r \in {"hit", "miss", "fault"} :
                /\ ~inst.raced => r = IF PeerKey \in inst.nodeMap
                                      THEN "hit" ELSE "miss"
                /\ pipes' = [pipes EXCEPT ![c].lookup = r]
                /\ inst' = [inst EXCEPT
                              !.crashed = (r = "fault"),
                              !.raced = Writing /\
                                        \E b \in 1..MaxConns \ {c} :
                                            pipes[b].lookup = "reading"]
    /\ UNCHANGED <<adder, restVars>>

\* Manager.AddProxy for the peer: m.mu.Lock(), the Proxy literal, Start. A
\* failed Start returns with the deferred Unlock.
AdderLock ==
    /\ Alive
    /\ adder = "idle"
    /\ \E ok \in BOOLEAN : adder' = IF ok THEN "started" ELSE "returned"
    /\ UNCHANGED <<inst, pipes, restVars>>

\* m.nodeMap[remoteAddr] = localAddr begins.
AdderWriteBegin ==
    /\ Alive
    /\ adder = "started"
    /\ adder' = "writing"
    /\ inst' = [inst EXCEPT !.raced = inst.raced \/
                                      \E c \in 1..MaxConns :
                                          pipes[c].lookup = "reading"]
    /\ UNCHANGED <<pipes, restVars>>

\* The assignment is done; the append and the deferred Unlock follow.
AdderWriteEnd ==
    /\ Alive
    /\ adder = "writing"
    /\ adder' = "returned"
    /\ inst' = [inst EXCEPT !.nodeMap = inst.nodeMap \cup {PeerKey}]
    /\ UNCHANGED <<pipes, restVars>>

\* Proxy.Shutdown on a started Proxy: the first call enters the sync.Once and
\* closes p.shutdown; a later call finds the Once taken.
LifeShutdown ==
    /\ Alive
    /\ inst.listener # "nil"
    /\ inst.calls < MaxShutdownCalls
    /\ inst' = IF inst.once
               THEN [inst EXCEPT !.calls = inst.calls + 1]
               ELSE [inst EXCEPT !.calls = inst.calls + 1, !.once = TRUE,
                                 !.shutdown = "closed",
                                 !.closes = inst.closes + 1,
                                 !.call = "closing"]
    /\ UNCHANGED <<pipes, adder, restVars>>

\* p.listener.Close(), and the goroutine that waits for the WaitGroup starts.
LifeCloseListener ==
    /\ Alive
    /\ inst.call = "closing"
    /\ inst' = [inst EXCEPT !.listener = "closed", !.call = "waiting",
                            !.waiter = "waiting"]
    /\ UNCHANGED <<pipes, adder, restVars>>

\* p.connections.Wait() returns at counter zero; close(done).
WaiterDone ==
    /\ Alive
    /\ inst.waiter = "waiting"
    /\ inst.connections = 0
    /\ inst' = [inst EXCEPT !.waiter = "done"]
    /\ UNCHANGED <<pipes, adder, restVars>>

\* The select of Shutdown: done is closed, or five seconds have passed.
LifeShutdownReturn ==
    /\ Alive
    /\ inst.call = "waiting"
    /\ \E by \in {"done", "timeout"} :
          /\ by = "done" => inst.waiter = "done"
          /\ inst' = [inst EXCEPT !.call = "returned", !.by = by]
    /\ UNCHANGED <<pipes, adder, restVars>>

\* The accept loop's own steps.
AcceptStep ==
    \/ AcceptSelect
    \/ AcceptTimeout
    \/ AcceptError
    \/ AcceptConn
    \/ AcceptAdd
    \/ AcceptGo

DialResults == BOOLEAN
AuthResults == {"ok", "token", "auth"}
RelayEnds == {"client", "remote", "framing"}

\* The Proxy with its clients and the callers of Shutdown.
LifeNext ==
    \/ Start
    \/ AcceptStep
    \/ PipeDial(DialResults)
    \/ PipeAuth(AuthResults)
    \/ PipeRelayEnd(RelayEnds)
    \/ LifeShutdown
    \/ LifeCloseListener
    \/ WaiterDone
    \/ LifeShutdownReturn

\* A cluster-mode Proxy serving clients while the manager adds the peer.
RaceNext ==
    \/ Start
    \/ AcceptStep
    \/ PipeDial({TRUE})
    \/ PipeAuth({"ok"})
    \/ PipeRelayEnd({"client"})
    \/ PipeLookupBegin
    \/ PipeLookupEnd
    \/ AdderLock
    \/ AdderWriteBegin
    \/ AdderWriteEnd

(***************************************************************************)
(* Specifications                                                          *)
(***************************************************************************)
CodecIdle ==
    /\ cpc = "idle"
    /\ cv = MkNullBulk
    /\ cmap = NodeMapOf({})
    /\ cres = FALSE
    /\ cout = MkNullBulk
    /\ cwire = <<>>
    /\ cread = ReadEof

TopoIdle ==
    /\ tpc = "idle"
    /\ tinput = <<>>
    /\ tself = <<>>
    /\ tnodes = <<>>
    /\ tunique = <<>>

\* No Proxy of the lifecycle model exists.
LifeIdle ==
    /\ inst = "none"
    /\ pipes = <<>>
    /\ adder = "none"

\* The whole system: a new manager, its configuration and discovery calls, and
\* one client connection through any of its proxies.
Init == CodecIdle /\ TopoIdle /\ MgrInit /\ ConnInit /\ LifeIdle

\* The caller configures the manager and adds the configured endpoints while
\* no client is connected; discovery runs beside the connection.
Next ==
    \/ conn.pc = "Free" /\ \E password \in { <<>>, Password } : SetAuthPassword(password)
    \/ conn.pc = "Free" /\ \E mode \in AuthorizationModes : SetAuthorizationMode(mode)
    \/ conn.pc = "Free" /\ MainAddProxy
    \/ DiscoverStart(BasicQueries)
    \/ DiscoverAddPeer
    \/ Pipeline(BasicAuthReplies, BasicWire)

Spec == Init /\ [][Next]_vars

\* The manager alone: its caller configures it, adds the configured endpoint
\* and runs discovery against a node that answers out of DiscoveryQueries.
DiscoveryNext ==
    \/ \E password \in { <<>>, Password } : SetAuthPassword(password)
    \/ \E mode \in AuthorizationModes : SetAuthorizationMode(mode)
    \/ MainAddProxy
    \/ DiscoverStart(DiscoveryQueries)
    \/ DiscoverAddPeer

SpecDiscovery == Init /\ [][DiscoveryNext]_vars

\* main: the configuration calls in any order and number, then the loop
\* over the endpoints.
MainNext ==
    \/ main.i = 0 /\ \E caCert \in CaCerts, skipVerify \in BOOLEAN :
                         SetTLSConfig(caCert, skipVerify)
    \/ main.i = 0 /\ \E password \in { <<>>, Password } : SetAuthPassword(password)
    \/ main.i = 0 /\ \E mode \in AuthorizationModes : SetAuthorizationMode(mode)
    \/ MainLoop

SpecMain == Init /\ [][MainNext]_vars

\* The manager under any caller: the configuration calls and AddProxy in any
\* order and number.
ManagerNext ==
    \/ \E caCert \in CaCerts, skipVerify \in BOOLEAN : SetTLSConfig(caCert, skipVerify)
    \/ \E password \in { <<>>, Password } : SetAuthPassword(password)
    \/ \E mode \in AuthorizationModes : SetAuthorizationMode(mode)
    \/ ApiAddProxy

SpecManager == Init /\ [][ManagerNext]_vars

\* The codec and the rewriter on generated values.
CodecSysInit == CodecInit /\ TopoIdle /\ MgrInit /\ ConnInit /\ LifeIdle

SpecCodec == CodecSysInit /\ [][CodecNext]_vars

\* ReadValue on generated values cut short.
TruncatedSysInit == TruncatedInit /\ TopoIdle /\ MgrInit /\ ConnInit /\ LifeIdle

SpecTruncated == TruncatedSysInit /\ [][CodecRead]_vars

\* ReadValue on generated bulk strings, well terminated and not.
FramingSysInit == FramingInit /\ TopoIdle /\ MgrInit /\ ConnInit /\ LifeIdle

SpecFraming == FramingSysInit /\ [][CodecRead]_vars

\* The parser and the filter of the topology on generated outputs.
TopoSysInit == CodecIdle /\ TopoInit /\ MgrInit /\ ConnInit /\ LifeIdle

SpecTopology == TopoSysInit /\ [][TopoNext]_vars

\* A manager after the primary was added and discovery added one peer, with
\* one of the credentials it can be configured with, and one connection with
\* the remote answering out of the full repertoires.
RelayInit ==
    /\ CodecIdle
    /\ TopoIdle
    /\ LifeIdle
    /\ ConnInit
    /\ \E cred \in { "none", "password", "token" } :
         /\ mAuthPassword = (IF cred = "password" THEN Password ELSE <<>>)
         /\ mAuthorizationMode = (IF cred = "token" THEN "IAM_AUTH" ELSE "AUTH_DISABLED")
         /\ mTokenSource = (cred = "token")
         /\ mIsClusterMode = TRUE
         /\ mNodeMap = NodeMapOf({1, 2})
         /\ mTlsConfig = NilTlsConfig
         /\ main = MainIdle
         /\ proxies = << Proxy(LocalAddrOf(0), RemoteAddrOf(1), mAuthPassword,
                               mTokenSource, NilTlsConfig, FALSE),
                         Proxy(LocalAddrOf(1), RemoteAddrOf(2), mAuthPassword,
                               mTokenSource, NilTlsConfig, TRUE) >>
         /\ disc = DiscReturn(1, "")
         /\ mu = "free"
         /\ mshut = MshutIdle
         /\ callers = CallersIdle

RelayNext == Pipeline(AuthReplies, RelayWire)

SpecRelay == RelayInit /\ [][RelayNext]_vars

\* The steps of handleConnection before the relay.
Handshake ==
    \/ DialStart
    \/ DialDone
    \/ AuthGetToken
    \/ AuthWrite
    \/ AuthRead

\* The goroutine of handleConnection is scheduled, and the dial and the read
\* of the AUTH reply carry a 5 second limit; the client -> server goroutine is
\* scheduled; the receive on errChan returns once a result was sent. Nothing
\* is assumed of the server -> client goroutine, of the client or the remote.
PipelineFairness ==
    /\ WF_vars(Handshake)
    /\ WF_vars(CopyClientToServer)
    /\ WF_vars(RelayExit)

\* The connection with a remote that also sends malformed replies; the
\* receive on errChan returns once a result was sent.
CorruptNext == Pipeline(BasicAuthReplies, CorruptWire)

SpecCorrupt == RelayInit /\ [][CorruptNext]_vars /\ WF_vars(RelayExit)

\* The connection with a remote that sends redirects inside arrays.
NestedNext == Pipeline(BasicAuthReplies, NestedWire)

SpecNested == RelayInit /\ [][NestedNext]_vars

\* The connection with the remote answering out of the full repertoires; the
\* goroutine whose socket was closed is scheduled.
SpecTeardown == RelayInit /\ [][RelayNext]_vars /\ WF_vars(RelayUnblock)

\* A new manager whose discovery call is taken statement by statement.
LockSysInit ==
    /\ CodecIdle /\ TopoIdle /\ ConnInit /\ LifeIdle
    /\ mAuthPassword = <<>>
    /\ mAuthorizationMode = ""
    /\ mTokenSource = FALSE
    /\ mTlsConfig = NilTlsConfig
    /\ main = MainIdle
    /\ mIsClusterMode = FALSE
    /\ mNodeMap = NodeMapOf({})
    /\ proxies = <<>>
    /\ disc = LockedIdle
    /\ mu = "free"
    /\ mshut = MshutIdle
    /\ callers = CallersIdle

\* The manager's caller configures it and adds the configured endpoint,
\* discovery runs, and another goroutine calls Manager.Shutdown.
LockNext ==
    \/ \E password \in { <<>>, Password } : SetAuthPassword(password)
    \/ \E mode \in AuthorizationModes : SetAuthorizationMode(mode)
    \/ MainAddProxy
    \/ LockedDiscoverLock
    \/ LockedDiscoverQuery
    \/ LockedDiscoverUnlock
    \/ LockedDiscoverAdd
    \/ LockedDiscoverRelock
    \/ LockedDiscoverReturn
    \/ ManagerShutdownStart
    \/ ManagerShutdownLoop
    \/ ProxyShutdownStep

\* The goroutine of the discovery call is scheduled in its loop and its
\* return (nothing is assumed of the dial, the authentication and the query),
\* the one of Manager.Shutdown is scheduled, and Proxy.Shutdown returns
\* within its 30 seconds.
SpecLock ==
    /\ LockSysInit
    /\ [][LockNext]_vars
    /\ WF_vars(LockedDiscoverLoop)
    /\ WF_vars(ManagerShutdownLoop)
    /\ WF_vars(ProxyShutdownStep)

\* The steps of the handshake that end by themselves: the dial, the write and
\* the read of the AUTH reply carry a 5 second limit. GetToken returns when
\* the token source answers: IAMTokenProvider.GetToken does not hand its ctx
\* to tokenSource.Token(), so the 5 second context of authenticateIAM does not
\* bound it.
TimedHandshake ==
    \/ DialStart
    \/ DialDone
    \/ AuthWrite
    \/ AuthRead

ReplySysInit == CodecIdle /\ ReplyInit /\ MgrInit /\ ConnInit /\ LifeIdle

\* DiscoverClusterTopology on each reply and each way the Read may be cut.
SpecReply == ReplySysInit /\ [][TopoDiscover]_vars

\* The caller configures the manager, adds the configured endpoints and runs
\* discovery against a cluster that may know the queried node by another
\* address.
AliasNext ==
    \/ \E password \in { <<>>, Password } : SetAuthPassword(password)
    \/ \E mode \in AuthorizationModes : SetAuthorizationMode(mode)
    \/ MainAddProxy
    \/ DiscoverStart(AliasQueries)
    \/ DiscoverAddPeer

SpecAlias == Init /\ [][AliasNext]_vars

\* A manager without credentials whose caller adds the configured endpoint,
\* runs discovery and calls Shutdown, starting nothing new once Shutdown was
\* called; one client that connects, stays or disconnects; other callers of
\* Proxy.Shutdown.
ShutdownNext ==
    \/ mshut.pc = "idle" /\ MainAddProxy
    \/ mshut.pc = "idle" /\ DiscoverStart(BasicQueries)
    \/ DiscoverAddPeer
    \/ ManagerShutdownStart
    \/ ManagerShutdownLoop
    \/ ShutdownCall
    \/ ProxyShutdownStep
    \/ Accept
    \/ DialStart
    \/ DialDone
    \/ ClientClose
    \/ CopyClientToServer
    \/ RelayExit
    \/ RelayUnblock

SpecShutdown == Init /\ [][ShutdownNext]_vars

\* The goroutines calling Shutdown are scheduled and time passes.
SpecShutdownLive == Init /\ [][ShutdownNext]_vars /\ WF_vars(ProxyShutdownStep)

\* The lifecycle of one Proxy; nothing else runs.
LifeSysInit == CodecIdle /\ TopoIdle /\ MgrInit /\ ConnInit /\ LifeInit

SpecLife == LifeSysInit /\ [][LifeNext]_vars

\* The goroutines of the Proxy are scheduled and Accept's deadline passes.
SpecLifeLive == LifeSysInit /\ [][LifeNext]_vars /\ WF_vars(AcceptStep)

SpecRace == LifeSysInit /\ [][RaceNext]_vars

LiveNext == Pipeline(BasicAuthReplies, BasicWire)

\* The connection of SpecRelay with the basic repertoires, the proxy's own
\* steps taken fairly; the client and the remote act when they like.
SpecRelayLive == RelayInit /\ [][LiveNext]_vars /\ PipelineFairness

\* The connection of SpecRelayLive with nothing assumed of the token source.
SpecAuthLive == RelayInit /\ [][LiveNext]_vars /\ WF_vars(TimedHandshake)

(***************************************************************************)
(* Properties of the codec and the rewriter                                *)
(***************************************************************************)
\* The payload starts with the six bytes "MOVED " or the four bytes "ASK ".
StartsWithRedirectKeyword(s) ==
    \/ /\ Len(s) >= 6
       /\ s[1] = "M" /\ s[2] = "O" /\ s[3] = "V" /\ s[4] = "E" /\ s[5] = "D"
       /\ s[6] = " "
    \/ /\ Len(s) >= 4
       /\ s[1] = "A" /\ s[2] = "S" /\ s[3] = "K" /\ s[4] = " "

\* The value is a redirect with exactly three fields whose target is mapped.
Rewritable(v, nodeMap) ==
    /\ v.Type = Error
    /\ StartsWithRedirectKeyword(v.Str)
    /\ Len(Fields(v.Str)) = 3
    /\ Fields(v.Str)[3] \in DOMAIN nodeMap

\* C2: RewriteRedirectError on a redirect Error with exactly three fields whose
\* third field is a key of the node map returns true and leaves the payload
\* "<keyword> <slot> <mapped local address>", single spaces between, keyword
\* and slot unchanged, and nothing else of the value changed.
C2_RewriteMapped ==
    (cpc = "rewritten" /\ Rewritable(cv, cmap)) =>
        LET f == Fields(cv.Str)
        IN  /\ cres = TRUE
            /\ cout = [cv EXCEPT !.Str = f[1] \o <<" ">> \o f[2] \o <<" ">> \o cmap[f[3]]]
            /\ Fields(cout.Str)[1] = f[1]
            /\ Fields(cout.Str)[2] = f[2]

\* A MOVED whose fields were separated by more than single spaces was rewritten
\* to the local listener of its target.
C2_Witness ==
    /\ cpc = "rewritten"
    /\ Rewritable(cv, cmap)
    /\ cv.Str = <<"M", "O", "V", "E", "D", " ", " ">> \o Slot \o <<"\t">> \o RemoteAddrOf(2)
    /\ cout.Str = MOVED_ \o Slot \o <<" ">> \o LocalAddrOf(1)

\* C3: RewriteRedirectError returns false and leaves the value byte-identical
\* whenever the value is not a redirect error, or its payload does not have
\* exactly three fields, or its target is not a key of the node map.
C3_RewriteMiss ==
    (cpc = "rewritten" /\ ~Rewritable(cv, cmap)) => (cres = FALSE /\ cout = cv)

\* A three-field ASK whose target is missing from a non-empty map was left alone.
C3_Witness ==
    /\ cpc = "rewritten"
    /\ cv.Type = Error
    /\ cv.Str = ASK_ \o Slot \o <<" ">> \o RemoteAddrOf(9)
    /\ DOMAIN cmap # {}
    /\ cres = FALSE

\* C4: IsRedirectError is true exactly for Error values whose payload begins
\* with the case-sensitive prefix "MOVED " or "ASK ", trailing space included,
\* and false for every other Error payload and every non-Error value.
C4_IsRedirectExact ==
    cpc = "isredirect" =>
        (cres <=> (cv.Type = Error /\ StartsWithRedirectKeyword(cv.Str)))

\* Both answers were given: a lower-case "moved ..." Error was refused (the
\* state shown), as an ASK Error is accepted in another.
C4_Witness ==
    /\ cpc = "isredirect"
    /\ cv.Type = Error
    /\ cv.Str = <<"m", "o", "v", "e", "d", " ">> \o Slot \o <<" ">> \o RemoteAddrOf(1)
    /\ cres = FALSE

\* C5: reading one value from Serialize(v) succeeds, consumes exactly those
\* bytes, and the parsed value serializes to the same bytes.
C5_RoundTrip ==
    cpc = "read" =>
        /\ cread.st = "ok"
        /\ cread.rest = <<>>
        /\ Serialize(cread.val) = cwire

\* A nested array holding a bulk string with CR LF inside went through.
C5_Witness ==
    /\ cpc = "read"
    /\ cv.Type = Array
    /\ Len(cv.Array) = 1
    /\ cv.Array[1].Type = Array
    /\ Len(cv.Array[1].Array) = 1
    /\ cv.Array[1].Array[1] = MkBulk(<<"a", "\r", "\n">>)
    /\ cread.st = "ok"

(***************************************************************************)
(* Properties of the manager and the connection pipeline                   *)
(***************************************************************************)
InTrace(phase) == \E k \in 1..Len(conn.trace) : conn.trace[k] = phase

\* The bytes of a -MOVED reply for Slot that names addr.
MovedTo(addr) ==
    <<"-", "M", "O", "V", "E", "D", " ">> \o Slot \o <<" ">> \o addr \o <<"\r", "\n">>

\* The address of the first node only discovery adds a proxy for.
PeerAddr == RemoteAddrOf(MaxEndpoints + 1)

\* The decimal digits of a length below 100.
Decimal(n) ==
    LET d == <<"0", "1", "2", "3", "4", "5", "6", "7", "8", "9">>
    IN  IF n < 10 THEN <<d[n + 1]>> ELSE <<d[(n \div 10) + 1], d[(n % 10) + 1]>>

\* *2 CR LF $4 CR LF AUTH CR LF $<len> CR LF <credential> CR LF
AuthFrame(credential) ==
    <<"*", "2", "\r", "\n">> \o <<"$", "4", "\r", "\n">> \o <<"A", "U", "T", "H", "\r", "\n">>
        \o <<"$">> \o Decimal(Len(credential)) \o <<"\r", "\n">>
        \o credential \o <<"\r", "\n">>

\* The credential the Proxy of the connection is configured with.
Configured == conn.proxy # 0 /\ (P.authPassword # <<>> \/ P.tokenSource)

\* What the pipeline has written to the remote behind the AUTH command.
ForwardedToRemote ==
    IF conn.cred = <<>> THEN conn.toRemote
    ELSE SubSeq(conn.toRemote, Len(AuthFrame(conn.cred)) + 1, Len(conn.toRemote))

\* What the RESP-aware relay owes the client for the reply w of the remote.
RelayedForm(w) ==
    LET v == ReadValue(w).val
    IN  IF Rewritable(v, mNodeMap)
        THEN LET f == Fields(v.Str)
             IN  <<"-">> \o f[1] \o <<" ">> \o f[2] \o <<" ">> \o mNodeMap[f[3]]
                     \o <<"\r", "\n">>
        ELSE Serialize(v)

\* C1: once discovery has added a proxy for the peer address, a -MOVED reply
\* naming that address, sent by the remote on a connection through any Proxy
\* of the manager, reaches the client naming the peer's local listener.
C1_RedirectRewrittenByEveryProxy ==
    [][ ( /\ conn'.toClient # conn.toClient
          /\ PeerAddr \in DOMAIN mNodeMap
          /\ IsPrefix(MovedTo(PeerAddr), conn.fromRemote) )
        => IsPrefix(conn.toClient \o MovedTo(mNodeMap[PeerAddr]), conn'.toClient) ]_vars

\* C6: in cluster mode, when the remote has sent well-formed values none of
\* which is a redirect with a mapped target, the client has received the very
\* bytes the remote sent, as far as they were relayed.
C6_ClusterRelayTransparent ==
    ( /\ conn.proxy # 0
      /\ P.isClusterMode
      /\ \A j \in 1..Len(conn.remoteSent) :
           /\ conn.remoteSent[j] \in WellFormedWire
           /\ ~Rewritable(ReadValue(conn.remoteSent[j]).val, mNodeMap) )
    => IsPrefix(conn.toClient, Flatten(conn.remoteSent))

\* C7: each direction keeps its order. What the remote received behind the
\* AUTH command is a prefix of what the client sent; in cluster mode the k-th
\* value written to the client is the k-th reply of the remote, rewritten if
\* it is a mapped redirect, none dropped, doubled or out of place; the verbatim
\* relay delivers a prefix of the remote's bytes.
C7_OrderPreserved ==
    conn.proxy # 0 =>
        /\ IsPrefix(ForwardedToRemote, conn.clientSent)
        /\ P.isClusterMode =>
             /\ Len(conn.relayed) <= Len(conn.remoteSent)
             /\ \A k \in 1..Len(conn.relayed) :
                  conn.relayed[k] = RelayedForm(conn.remoteSent[k])
             /\ conn.toClient = Flatten(conn.relayed)
        /\ ~P.isClusterMode => IsPrefix(conn.toClient, Flatten(conn.remoteSent))

\* Two different replies, the first a mapped redirect, reached the client in
\* order and rewritten, and both bytes of the client reached the remote.
C7_Witness ==
    /\ conn.proxy # 0
    /\ P.isClusterMode
    /\ Len(conn.relayed) = 2
    /\ conn.remoteSent[1] = MovedTo(RemoteAddrOf(2))
    /\ conn.relayed[1] = MovedTo(LocalAddrOf(1))
    /\ conn.remoteSent[2] = <<":", "+", "1", "\r", "\n">>
    /\ ForwardedToRemote = <<"a", "b">>

C9_PasswordBeforeToken ==
    conn.proxy # 0 =>
        /\ P.authPassword # <<>> =>
             /\ conn.getTokenCalls = 0
             /\ conn.cred \in { <<>>, P.authPassword }
             /\ InTrace("Authenticating") => conn.cred = P.authPassword
        /\ (P.authPassword = <<>> /\ P.tokenSource) =>
             /\ conn.getTokenCalls <= 1
             /\ (InTrace("Authenticating") /\ conn.pc # "AuthToken") =>
                  conn.getTokenCalls = 1
             /\ ~InTrace("Authenticating") => conn.getTokenCalls = 0
             /\ (conn.getTokenCalls = 1 /\ conn.cred = <<>>) =>
                  /\ conn.pc = "Closed"
                  /\ conn.toRemote = <<>>
                  /\ ~InTrace("Relaying")
        /\ (P.authPassword = <<>> /\ ~P.tokenSource) => conn.getTokenCalls = 0

\* A Proxy holding both a password and a token source relays after the
\* password was accepted.
C9_Witness ==
    /\ conn.proxy # 0
    /\ P.authPassword = Password
    /\ P.tokenSource
    /\ conn.pc = "Relaying"
    /\ conn.cred = Password
    /\ IsPrefix(AuthFrame(Password), conn.toRemote)

\* The phases in the order the pipeline may pass them.
PhaseRank(phase) ==
    CASE phase = "Accepted" -> 1
      [] phase = "Dialing" -> 2
      [] phase = "Authenticating" -> 3
      [] phase = "Relaying" -> 4
      [] phase = "Closed" -> 5

\* C10: with a credential configured the first bytes written to the remote
\* are the AUTH frame of that credential; before the reply was accepted no
\* byte of the client is at the remote and no byte of the remote at the
\* client; the phases are passed in order, Relaying only after Dialing and
\* Authenticating.
C10_AuthFirst ==
    Configured =>
        LET credential == IF P.authPassword # <<>> THEN P.authPassword ELSE Token
        IN  /\ conn.toRemote # <<>> => IsPrefix(AuthFrame(credential), conn.toRemote)
            /\ ~InTrace("Relaying") =>
                 /\ conn.toRemote \in { <<>>, AuthFrame(credential) }
                 /\ conn.toClient = <<>>
            /\ \A i, j \in 1..Len(conn.trace) :
                 i < j => PhaseRank(conn.trace[i]) < PhaseRank(conn.trace[j])
            /\ InTrace("Relaying") => InTrace("Authenticating")
            /\ InTrace("Authenticating") => InTrace("Dialing")

\* The token, eleven bytes long, was sent in its frame, accepted, and the
\* client's bytes followed it to the remote.
C10_Witness ==
    /\ Configured
    /\ conn.pc = "Relaying"
    /\ conn.cred = Token
    /\ conn.toRemote =
         <<"*", "2", "\r", "\n", "$", "4", "\r", "\n", "A", "U", "T", "H", "\r", "\n",
           "$", "1", "1", "\r", "\n">> \o Token \o <<"\r", "\n", "a", "b">>
    /\ conn.toClient # <<>>

C12_ShutdownOnce ==
    /\ \A k \in 1..Len(proxies) :
         /\ proxies[k].shutdownCloses <= 1
         /\ proxies[k].listenerCloses <= 1
         /\ proxies[k].shutdownOnce = "done" =>
              (proxies[k].shutdownCloses = 1 /\ proxies[k].listenerCloses = 1)
    /\ \A c \in 0..MaxCallers :
         callers[c].pc = "returned" =>
             /\ proxies[callers[c].proxy].shutdownCloses = 1
             /\ proxies[callers[c].proxy].listenerCloses = 1

\* Manager.Shutdown and another caller both called Shutdown of the same Proxy
\* and both have returned, one of them without running the function.
C12_Witness ==
    /\ callers[0].pc = "returned"
    /\ callers[1].pc = "returned"
    /\ callers[0].proxy = callers[1].proxy
    /\ callers[0].by = "once" \/ callers[1].by = "once"
    /\ proxies[callers[0].proxy].shutdownCloses = 1

\* C13: every call of Proxy.Shutdown returns, through the timeout when the
\* connections do not finish, and no step of Shutdown touches a connection:
\* the sockets of a connection still open stay open.
C13_ShutdownReturns ==
    /\ \A c \in 0..MaxCallers :
         (callers[c].pc \in {"called", "closing", "waiting"})
             ~> (callers[c].pc = "returned")
    /\ []((conn.pc \notin {"Free", "Closed"}) => conn.clientConn = "open")
    /\ []((conn.pc = "Relaying") => conn.remoteConn = "open")
    /\ [][(callers' # callers \/ proxies' # proxies) => conn' = conn]_vars

\* Shutdown returned through the timeout while a connection of its Proxy
\* relays with both sockets open.
C13_Witness ==
    /\ \E c \in 0..MaxCallers :
         /\ callers[c].pc = "returned"
         /\ callers[c].by = "timeout"
         /\ conn.proxy = callers[c].proxy
    /\ conn.pc = "Relaying"
    /\ conn.clientConn = "open"
    /\ conn.remoteConn = "open"

\* C14: once Manager.Shutdown has returned, every Proxy of the manager has
\* been shut down and none of its listeners is open.
C14_AllShutDownAfterManagerShutdown ==
    mshut.pc = "returned" =>
        \A k \in 1..Len(proxies) :
            /\ proxies[k].shutdownOnce = "done"
            /\ proxies[k].listenerCloses >= 1

\* The local port DiscoverAndAddClusterNodes is called with: the one after
\* the ports of the configured endpoints.
DiscoveryStartPort == StartPort + MaxEndpoints

\* The manager owns a Proxy serving host:port on the local port.
Started(call) ==
    \E k \in 1..Len(proxies) :
        /\ proxies[k].localAddr = HostPort(LocalAddr, call.localPort)
        /\ proxies[k].remoteAddr = HostPort(call.host, call.port)

\* C15: with one or more unique peers, discovery has set cluster mode and
\* calls AddProxy once per peer, in the order of the peers, the i-th peer
\* (0-based) on start port + i whether or not earlier calls failed; the count
\* is the number of calls that started a Proxy, and the call returns only
\* after the last peer, without error.
C15_PeersAddedInOrder ==
    (disc.pc \in {"adding", "returned"} /\ disc.newNodes # <<>>) =>
        /\ mIsClusterMode
        /\ \A a, b \in 1..Len(disc.newNodes) :
               a # b => disc.newNodes[a].Address # disc.newNodes[b].Address
        /\ Len(disc.calls) = disc.i
        /\ \A j \in 1..Len(disc.calls) :
               /\ disc.calls[j].host = extractHost(disc.newNodes[j].Address)
               /\ disc.calls[j].port = disc.newNodes[j].Port
               /\ disc.calls[j].localPort = DiscoveryStartPort + (j - 1)
               /\ disc.calls[j].ok <=> Started(disc.calls[j])
        /\ disc.addedCount = Cardinality({ j \in 1..Len(disc.calls) : disc.calls[j].ok })
        /\ disc.pc = "returned" =>
               /\ Len(disc.calls) = Len(disc.newNodes)
               /\ disc.err = ""

\* Discovery returned after two peers: AddProxy failed for the first and
\* started the second on the second port.
C15_Witness ==
    /\ disc.pc = "returned"
    /\ Len(disc.newNodes) = 2
    /\ ~disc.calls[1].ok
    /\ disc.calls[2].ok
    /\ disc.calls[2].localPort = DiscoveryStartPort + 1
    /\ disc.addedCount = 1

\* The reply is a topology with nodes in it, none of them a peer of the
\* queried node.
ZeroPeers(reply) ==
    LET res == DiscoverClusterTopology(TRUE, reply, Len(reply))
    IN  /\ res.st = "ok"
        /\ res.nodes # <<>>
        /\ FilterUniqueNodes(res.nodes, RemoteAddrOf(1)) = <<>>

\* C16: when the topology has no peer of the queried node, discovery returns
\* count zero and no error, has called AddProxy for nothing, and the step
\* leaves the proxies, the cluster-mode flag and the node map as they were.
C16_ZeroPeersChangeNothing ==
    /\ []((disc.pc = "returned" /\ ZeroPeers(disc.reply)) =>
            /\ disc.err = ""
            /\ disc.addedCount = 0
            /\ disc.calls = <<>>
            /\ ~mIsClusterMode)
    /\ [][(disc.pc = "idle" /\ ZeroPeers(disc'.reply)) =>
            /\ disc'.pc = "returned"
            /\ proxies' = proxies
            /\ mIsClusterMode' = mIsClusterMode
            /\ mNodeMap' = mNodeMap]_vars

\* Discovery returned from a single-node cluster whose primary is proxied.
C16_Witness ==
    /\ disc.pc = "returned"
    /\ disc.reply = BulkReply(TopologyOf(0))
    /\ Len(proxies) = 1
    /\ DOMAIN mNodeMap = { RemoteAddrOf(1) }

\* The errors DiscoverAndAddClusterNodes returns when the dial, the write of
\* the query or a read of the reply failed.
TransportFailures ==
    { "failed to connect to primary endpoint",
      "failed to discover cluster topology: failed to send CLUSTER NODES command",
      "failed to discover cluster topology: failed to read response type",
      "failed to discover cluster topology: failed to read length",
      "failed to discover cluster topology: failed to read data" }

\* The queried node answered, and not with a bulk string.
NotBulk(reply) == reply # <<>> /\ Head(reply) # "$"

\* C17: when the first reply to the topology query is not a bulk string,
\* discovery returns an error that is none of the errors of a failed dial,
\* write or read, has called AddProxy for nothing, and cluster mode is false.
C17_NotBulkFailsDistinctly ==
    (disc.pc # "idle" /\ NotBulk(disc.reply)) =>
        /\ disc.pc = "returned"
        /\ disc.err # ""
        /\ disc.err \notin TransportFailures
        /\ disc.err # "authentication failed"
        /\ disc.addedCount = 0
        /\ disc.calls = <<>>
        /\ ~mIsClusterMode

\* Discovery returned after the queried node answered with an error reply,
\* with the primary's proxy in place.
C17_Witness ==
    /\ disc.pc = "returned"
    /\ disc.reply = ErrorReply
    /\ disc.err = "failed to discover cluster topology: not a cluster instance"
    /\ Len(proxies) = 1

RECURSIVE SubseqAt(_, _, _)
\* The elements of s at the indices of I, from index i on, in order.
SubseqAt(s, I, i) ==
    IF i > Len(s) THEN <<>>
    ELSE (IF i \in I THEN <<s[i]>> ELSE <<>>) \o SubseqAt(s, I, i + 1)

\* The node is not the queried node: neither by address nor by flag.
Foreign(node, self) ==
    /\ node.Address # self
    /\ ~Contains(node.Flags, <<"m", "y", "s", "e", "l", "f">>)

\* C18 as stated: FilterUniqueNodes returns, in order, exactly the nodes
\* whose address is not self, whose flags do not contain myself and whose
\* address no earlier node of the list has.
C18_FirstOccurrenceInList ==
    tpc = "filtered" =>
        tunique = SubseqAt(tnodes,
                           { i \in 1..Len(tnodes) :
                               /\ Foreign(tnodes[i], tself)
                               /\ \A j \in 1..(i - 1) :
                                      tnodes[j].Address # tnodes[i].Address },
                           1)

\* C18: FilterUniqueNodes returns, in order, exactly the nodes whose address
\* is not self, whose flags do not contain myself and whose address no
\* earlier node with such an address and such flags has; no two nodes of the
\* result have one address and none has the address self.
C18_FirstOccurrenceAmongForeign ==
    tpc = "filtered" =>
        /\ tunique = SubseqAt(tnodes,
                              { i \in 1..Len(tnodes) :
                                  /\ Foreign(tnodes[i], tself)
                                  /\ \A j \in 1..(i - 1) :
                                         Foreign(tnodes[j], tself) =>
                                             tnodes[j].Address # tnodes[i].Address },
                              1)
        /\ \A a, b \in 1..Len(tunique) :
               a # b => tunique[a].Address # tunique[b].Address
        /\ \A a \in 1..Len(tunique) : tunique[a].Address # tself

\* The list names the queried node, a node flagged myself at another address
\* and a second node at that address; the filter kept one node of three.
C18_Witness ==
    /\ tpc = "filtered"
    /\ Len(tnodes) = 3
    /\ tnodes[1].Address = tself
    /\ Contains(tnodes[2].Flags, <<"m", "y", "s", "e", "l", "f">>)
    /\ tnodes[3].Address = tnodes[2].Address
    /\ tunique = <<tnodes[3]>>

\* C19: parseClusterNodes returns, in the order of the lines, the node of
\* every line that has 8 fields or more (its id, its address without bus
\* port and hostname, the port of the address, its flags, master or slave
\* by its flags) and nothing for the other lines.
C19_OneNodePerFullLine ==
    tpc \in {"parsed", "filtered"} =>
        tnodes = Flatten([i \in 1..Len(tinput) |-> tinput[i].nodes])

\* An output of a short line, a line with hostname and bus port and a replica
\* line in whitespace was parsed to the two nodes of the full lines.
C19_Witness ==
    /\ tpc = "parsed"
    /\ Len(tinput) = 3
    /\ tinput[1].nodes = <<>> /\ tinput[1].text # <<>>
    /\ Contains(tinput[2].text, HostSuffix \o BusPort)
    /\ tinput[3].text # <<>> /\ IsSpace(Head(tinput[3].text))
    /\ Len(tnodes) = 2
    /\ tnodes[1].Address = RemoteAddrOf(3) /\ tnodes[1].Role = "master"
    /\ tnodes[2].Address = RemoteAddrOf(3) /\ tnodes[2].Role = "slave"

\* The bulk string of a generated wire: the wire without the array header.
BulkOf(wire) ==
    IF HasPrefix(wire, ArrayOfOne) THEN SubSeq(wire, 5, Len(wire)) ELSE wire

\* The length a generated bulk string declares, and the bytes after its
\* length line.
DeclaredLength(wire) == DigitVal(BulkOf(wire)[2])

AfterLengthLine(wire) == SubSeq(BulkOf(wire), 5, Len(BulkOf(wire)))

\* C20: when the N bytes after the length line of a bulk string are there
\* with two more bytes that are not CR LF, ReadValue reports a framing error;
\* and whenever ReadValue returns a value for a bulk string declaring N, the
\* payload is the N bytes after the length line.
C20_BulkTerminatorChecked ==
    (cpc = "read" /\ cwire \in FramingWires) =>
        LET n == DeclaredLength(cwire)
            after == AfterLengthLine(cwire)
            bulk == MkBulk(SubSeq(after, 1, n))
        IN  /\ (Len(after) >= n + 2 /\ SubSeq(after, n + 1, n + 2) # CRLF)
                   => cread.st = "framing"
            /\ cread.st = "ok" =>
                   /\ SubSeq(after, n + 1, n + 2) = CRLF
                   /\ cread.val = (IF HasPrefix(cwire, ArrayOfOne)
                                   THEN MkArray(<<bulk>>) ELSE bulk)

\* A bulk string declaring one byte, followed by two bytes and CR LF, was
\* read: the terminator a longer body would have is not where it is looked
\* for.
C20_Witness ==
    /\ cpc = "read"
    /\ cwire = BulkWire(1, <<"a", "a", "\r", "\n">>)
    /\ cread.st = "framing"

\* C21: when the stream ends inside a value (after its type byte, inside a
\* line, inside a bulk body, between the elements of an array), ReadValue
\* returns the stream's error: no framing error and no value.
C21_StreamEndIsNotFraming ==
    (cpc = "read" /\ Len(cwire) < Len(Serialize(cv))) => cread.st = "eof"

\* The stream of an array of a bulk string and a further element ended
\* after the bulk string, and ReadValue was called.
C21_Witness ==
    /\ cpc = "read"
    /\ cv.Type = Array
    /\ Len(cv.Array) = 2
    /\ cv.Array[1].Type = BulkString
    /\ cwire = (<<"*", "2">> \o CRLF) \o Serialize(cv.Array[1])
    /\ cread.st = "eof"

\* C22: the proxies main has added are, in the order of the endpoint list,
\* the i-th endpoint (0-based) on <local address>:<start port + i>, the
\* primary on the start port; main is ready only with all of them.
C22_EndpointPorts ==
    /\ Len(proxies) = main.i
    /\ \A k \in 1..Len(proxies) :
          /\ proxies[k].remoteAddr = RemoteAddrOf(k)
          /\ proxies[k].localAddr = HostPort(LocalAddr, StartPort + (k - 1))
          /\ mNodeMap[RemoteAddrOf(k)] = HostPort(LocalAddr, StartPort + (k - 1))
    /\ main.pc = "ready" => Len(proxies) = MaxMainEndpoints

\* main is ready: the third endpoint is served two ports after the
\* primary's.
C22_Witness ==
    /\ main.pc = "ready"
    /\ Len(proxies) = 3
    /\ proxies[1].localAddr = LocalAddrOf(0)
    /\ proxies[3].remoteAddr = RemoteAddrOf(3)
    /\ proxies[3].localAddr = LocalAddrOf(2)

\* The node map is m with remoteAddr mapped to localAddr.
MapWith(m, remoteAddr, localAddr) ==
    [a \in DOMAIN m \cup {remoteAddr} |-> IF a = remoteAddr THEN localAddr ELSE m[a]]

\* C24: a new manager has no proxy and an empty node map; a step in which
\* AddProxy returns the error of the bind leaves the list and the map as
\* they were; the list and the map change only in a step in which AddProxy
\* returns nil, by one Proxy appended and its remote -> local entry.
C24_MapAndListAfterBind ==
    /\ proxies = <<>> /\ DOMAIN mNodeMap = {}
    /\ [][(main.err = "" /\ main'.err = "failed to listen") =>
              (proxies' = proxies /\ mNodeMap' = mNodeMap)]_vars
    /\ [][(proxies' # proxies \/ mNodeMap' # mNodeMap) =>
              /\ main'.err = ""
              /\ main'.i = main.i + 1
              /\ Len(proxies') = Len(proxies) + 1
              /\ SubSeq(proxies', 1, Len(proxies)) = proxies
              /\ mNodeMap' = MapWith(mNodeMap, proxies'[Len(proxies')].remoteAddr,
                                     proxies'[Len(proxies')].localAddr)]_vars

\* The bind failed for the second endpoint: one proxy, one entry.
C24_Witness ==
    /\ main.pc = "fatal"
    /\ main.err = "failed to listen"
    /\ Len(proxies) = 1
    /\ DOMAIN mNodeMap = { RemoteAddrOf(1) }

\* C25: the node map has one entry per Proxy of the manager: as many entries
\* as proxies, and each Proxy's remote address mapped to its local address.
C25_OneEntryPerProxy ==
    /\ Cardinality(DOMAIN mNodeMap) = Len(proxies)
    /\ \A k \in 1..Len(proxies) :
          /\ proxies[k].remoteAddr \in DOMAIN mNodeMap
          /\ mNodeMap[proxies[k].remoteAddr] = proxies[k].localAddr

\* C26: every Proxy of the manager holds the manager's TLS configuration,
\* password and token source.
C26_SharedConfiguration ==
    \A k \in 1..Len(proxies) :
        /\ proxies[k].tlsConfig = mTlsConfig
        /\ proxies[k].authPassword = mAuthPassword
        /\ proxies[k].tokenSource = mTokenSource

(***************************************************************************)
(* The node map under concurrent AddProxy                                  *)
(***************************************************************************)
\* A relay of the Proxy is reading the node map.
Reading == \E c \in 1..MaxConns : pipes[c].lookup = "reading"

\* C23: no pipeline reads the Node Address Map while AddProxy is writing it:
\* the redirect lookup of a cluster-mode relay and the map assignment of an
\* AddProxy call never overlap.
C23_LookupExcludesWrite == ~(Writing /\ Reading)

(***************************************************************************)
(* The lifecycle of a Proxy                                                *)
(***************************************************************************)
\* The state of the Proxy, from what the code holds: Created until the bind,
\* Listening with an open listener, ShuttingDown once p.shutdown is closed,
\* Stopped when the Shutdown call that closed it has returned.
LifeState ==
    IF inst.call = "returned" THEN "Stopped"
    ELSE IF inst.shutdown = "closed" THEN "ShuttingDown"
    ELSE IF inst.listener = "open" THEN "Listening"
    ELSE "Created"

\* C27: a Proxy whose Accept has just failed with an error that is not a
\* timeout has entered ShuttingDown (part of: Created, Listening, ShuttingDown,
\* Stopped in that order; ShuttingDown entered once, on Shutdown or on a fatal
\* accept error; a timeout leaves it Listening).
C27_FatalAcceptErrorShutsDown ==
    inst.err = "fatal" => LifeState \in {"ShuttingDown", "Stopped"}

\* The pipelines whose p.connections.Add(1) has run and that have not returned.
Counted == { c \in 1..MaxConns :
               pipes[c].pc \in {"Counted", "Dialing", "Authenticating", "Relaying"} }

\* The pipelines that exist and have not reached Closed.
Open == { c \in 1..MaxConns : pipes[c].pc \notin {"Free", "Closed"} }

\* C28 as stated: the in-flight counter equals the number of pipelines that
\* have not reached Closed.
C28_CounterIsOpenPipelines == inst.connections = Cardinality(Open)

\* C28: every accepted connection is counted once and released once whichever
\* way its pipeline ends; a Closed pipeline has its client socket closed and
\* its remote socket closed if the dial had opened it; nothing is dialled
\* twice; the counter is never negative and equals the number of pipelines
\* whose increment has run and that have not reached Closed.
C28_CountedOnceReleasedOnce ==
    /\ inst.connections >= 0
    /\ inst.connections = Cardinality(Counted)
    /\ \A c \in 1..MaxConns :
          /\ pipes[c].dials <= 1
          /\ pipes[c].pc \in {"Free", "Accepted"} =>
                pipes[c].adds = 0 /\ pipes[c].dones = 0
          /\ c \in Counted => pipes[c].adds = 1 /\ pipes[c].dones = 0
          /\ pipes[c].pc = "Closed" =>
                /\ pipes[c].adds = 1
                /\ pipes[c].dones = 1
                /\ pipes[c].client = "closed"
                /\ pipes[c].remote = IF pipes[c].exit = "dial"
                                     THEN "none" ELSE "closed"

\* Three pipelines have ended, on a failed dial, a failed token fetch and a
\* framing error, and the counter is back at zero.
C28_Witness ==
    /\ pipes[1].pc = "Closed" /\ pipes[1].exit = "dial"
    /\ pipes[2].pc = "Closed" /\ pipes[2].exit = "token"
    /\ pipes[3].pc = "Closed" /\ pipes[3].exit = "framing"
    /\ inst.connections = 0

\* A handleConnection goroutine is running.
Running(c) == pipes[c].pc \in {"Dialing", "Authenticating", "Relaying"}

\* C29: once Shutdown has returned after the WaitGroup was seen at zero, no
\* pipeline of the Proxy is running, and none is started afterwards.
C29_NoPipelineAfterDrainedShutdown ==
    (inst.call = "returned" /\ inst.by = "done") =>
        \A c \in 1..MaxConns : ~Running(c)

\* C30: the accept loop never waits for a pipeline: whatever the pipelines
\* do, a started loop that has not returned can take its next step, a client
\* that connects to the open listener is accepted, and once p.shutdown is
\* closed the loop returns.
C30_AcceptLoopNeverWaits ==
    /\ [](inst.loop \notin {"none", "dropped", "exited"} => ENABLED AcceptStep)
    /\ []((inst.loop = "accept" /\ inst.listener = "open" /\
           \E c \in 1..MaxConns : pipes[c].pc = "Free") => ENABLED AcceptConn)
    /\ (inst.shutdown = "closed") ~> (inst.loop = "exited")

\* Two pipelines are blocked, a third client got its own pipeline, and the
\* loop has returned after the shutdown.
C30_Witness ==
    /\ pipes[1].pc = "Relaying"
    /\ pipes[2].pc = "Authenticating"
    /\ pipes[3].pc = "Dialing"
    /\ inst.shutdown = "closed"
    /\ inst.loop = "exited"

(***************************************************************************)
(* The end of the authentication                                           *)
(***************************************************************************)
\* The pipeline is in Authenticating.
Authenticating == conn.pc \in {"AuthToken", "AuthWrite", "AuthRead"}

\* C31: a pipeline never stays in Authenticating forever: with a password or
\* a token, and with a remote or a token source that never answers, the
\* authentication ends, in Relaying or in Closed.
C31_AuthenticatingEnds == Authenticating ~> (conn.pc \in {"Relaying", "Closed"})

(***************************************************************************)
(* Framing errors in the relay                                             *)
(***************************************************************************)
\* The reader of a cluster-mode relay is at a value it cannot parse.
AtFramingError ==
    /\ conn.pc = "Relaying"
    /\ P.isClusterMode
    /\ conn.s2c = "run"
    /\ ReadValue(conn.fromRemote).st = "framing"

\* C32: in cluster mode a framing error of any kind in the replies of the
\* remote ends that connection and touches nothing else: the step that meets
\* it writes nothing to the client and ends the server -> client direction,
\* leaving the proxies and the manager as they are; no reply is read or
\* written afterwards; the pipeline then reaches Closed with both sockets
\* closed.
C32_FramingErrorEndsConnection ==
    /\ \A w \in FramingErrorWire : ReadValue(w).st = "framing"
    /\ [][ (AtFramingError /\ conn'.s2c = "done") =>
             /\ conn'.toClient = conn.toClient
             /\ conn'.relayed = conn.relayed
             /\ conn'.toRemote = conn.toRemote
             /\ proxies' = proxies
             /\ mNodeMap' = mNodeMap ]_vars
    /\ [][ conn.s2c = "done" =>
             /\ conn'.s2c = "done"
             /\ conn'.toClient = conn.toClient
             /\ conn'.pc \in {"Relaying", "Closed"} ]_vars
    /\ [](conn.pc = "Closed" =>
             conn.clientConn = "closed" /\ conn.remoteConn # "open")
    /\ (conn.pc = "Relaying" /\ conn.s2c = "done") ~> (conn.pc = "Closed")

\* After one reply was relayed the remote sent a bulk string with a wrong
\* terminator: the pipeline is closed with both sockets closed, the client
\* has the first reply and nothing else, and neither peer had disconnected.
C32_Witness ==
    /\ conn.pc = "Closed"
    /\ conn.proxy # 0
    /\ P.isClusterMode
    /\ conn.remoteSent = << Serialize(MkSimple(<<"O", "K">>)),
                            <<"$", "1", "\r", "\n", "a", "X", "Y">> >>
    /\ conn.toClient = Serialize(MkSimple(<<"O", "K">>))
    /\ conn.s2c = "done"
    /\ conn.c2s = "run"
    /\ ~conn.clientEOF
    /\ ~conn.remoteEOF
    /\ conn.clientConn = "closed"
    /\ conn.remoteConn = "closed"

(***************************************************************************)
(* The topology reply                                                      *)
(***************************************************************************)
\* The reply is the whole bulk string of the topology of k peers.
WholeReplyOf(k) == tinput.reply = BulkReply(TopologyOf(k))

\* C33: DiscoverClusterTopology parses the whole bulk-string reply: when the
\* remote has sent the complete bulk string of a topology, the call returns
\* one node for each of its lines, in order, however many bytes the read of
\* the connection delivers at once.
C33_WholeReplyParsed ==
    tpc = "discovered" =>
        \A k \in 0..MaxReplyPeers :
            WholeReplyOf(k) =>
                /\ tnodes.st = "ok"
                /\ tnodes.nodes = parseClusterNodes(TopologyOf(k))

\* C39: DiscoverClusterTopology returns a node list or an error for every
\* reply, a null bulk string, another negative length and a reply shorter
\* than its declared length included; it does not crash.
C39_NodesOrError == tpc = "discovered" => tnodes.st \in {"ok", "error"}

(***************************************************************************)
(* The connection of discovery                                             *)
(***************************************************************************)
\* The errors of discovery before the topology query.
BeforeQuery == { "failed to connect to primary endpoint", "authentication failed" }

\* C34: a discovery call that gets as far as the topology query has
\* authenticated its connection, with the password if the manager has one,
\* else with a token if the mode is IAM_AUTH, whether or not AddProxy ran
\* before; a call whose dial or authentication failed returns an error, has
\* called AddProxy for nothing and leaves cluster mode as it was.
C34_DiscoveryAuthenticates ==
    [][ (disc.pc = "idle" /\ disc'.pc # "idle") =>
          IF disc'.err \in BeforeQuery
          THEN /\ disc'.pc = "returned"
               /\ disc'.addedCount = 0
               /\ disc'.calls = <<>>
               /\ proxies' = proxies
               /\ mIsClusterMode' = mIsClusterMode
          ELSE /\ mAuthPassword # <<>> => disc'.auth = "password"
               /\ (mAuthPassword = <<>> /\ mAuthorizationMode = "IAM_AUTH") =>
                      disc'.auth = "token" ]_vars

\* The nodes of the topology the queried node reported.
Discovered == DiscoverClusterTopology(TRUE, disc.reply, Len(disc.reply)).nodes

\* C35: when the primary endpoint's proxy was added and discovery has
\* returned without error with every AddProxy call succeeding, the address of
\* every node of the discovered topology is a key of the node map, the
\* address the queried node reports for itself included.
C35_EveryNodeMapped ==
    ( /\ disc.pc = "returned"
      /\ disc.err = ""
      /\ RemoteAddrOf(1) \in DOMAIN mNodeMap
      /\ \A j \in 1..Len(disc.calls) : disc.calls[j].ok )
    => \A n \in 1..Len(Discovered) : Discovered[n].Address \in DOMAIN mNodeMap

(***************************************************************************)
(* Redirects inside arrays                                                 *)
(***************************************************************************)
\* The reply is an array.
IsArrayReply(w) == w # <<>> /\ Head(w) = "*"

\* C36: the RESP-aware relay rewrites only a redirect that is a reply of its
\* own: an array reply reaches the client byte for byte, with the remote
\* address of a redirect among its elements at any depth, also when that
\* address is a key of the node map; the same redirect as a reply of its own
\* is rewritten.
C36_NestedRedirectUntouched ==
    (conn.proxy # 0 /\ P.isClusterMode) =>
        \A k \in 1..Len(conn.relayed) :
            /\ IsArrayReply(conn.remoteSent[k]) =>
                  conn.relayed[k] = conn.remoteSent[k]
            /\ conn.remoteSent[k] = MovedTo(RemoteAddrOf(2)) =>
                  conn.relayed[k] = MovedTo(mNodeMap[RemoteAddrOf(2)])

\* The client has received an array whose element two levels down is a
\* redirect to a mapped node, unchanged, and then the same redirect as a
\* reply of its own, rewritten.
C36_Witness ==
    /\ conn.proxy # 0
    /\ P.isClusterMode
    /\ RemoteAddrOf(2) \in DOMAIN mNodeMap
    /\ Len(conn.relayed) = 2
    /\ conn.remoteSent[1] =
          Serialize(MkArray(<<MkArray(<<MkSimple(<<"O", "K">>),
              MkError(MOVED_ \o Slot \o <<" ">> \o RemoteAddrOf(2))>>)>>))
    /\ conn.relayed[1] = conn.remoteSent[1]
    /\ conn.remoteSent[2] = MovedTo(RemoteAddrOf(2))
    /\ conn.relayed[2] = MovedTo(LocalAddrOf(1))
    /\ conn.toClient = conn.relayed[1] \o conn.relayed[2]

(***************************************************************************)
(* Bytes behind the AUTH reply                                             *)
(***************************************************************************)
\* What the remote has sent behind the five bytes of +OK CR LF.
SentAfterOk ==
    SubSeq(conn.authRead, 6, Len(conn.authRead)) \o Flatten(conn.remoteSent)

\* C37: the handshake takes the five bytes of +OK CR LF and no more: while
\* the server -> client direction runs, every byte the remote has sent
\* behind them, also in the segment of the reply itself, is with the client
\* or still waiting to be read by the relay.
C37_BytesAfterOkDelivered ==
    ( /\ conn.pc = "Relaying"
      /\ conn.s2c = "run"
      /\ AuthAccepted(conn.authRead) ) =>
        /\ conn.toClient = <<>> => conn.fromRemote = SentAfterOk
        /\ ~P.isClusterMode => conn.toClient \o conn.fromRemote = SentAfterOk

(***************************************************************************)
(* The goroutine of the other direction                                    *)
(***************************************************************************)
\* handleConnection has returned from the relay and a goroutine of it is
\* still in its copy.
Orphaned == conn.pc = "Closed" /\ (conn.c2s = "run" \/ conn.s2c = "run")

\* C38: after the pipeline has left Relaying because one direction ended, the
\* goroutine of the other direction ends too: the socket it reads is closed,
\* its send into errChan finds room, and it terminates, in simple and in
\* cluster mode; errChan never holds more than its buffer.
C38_OtherDirectionEnds ==
    /\ [](Orphaned =>
            /\ conn.clientConn = "closed" /\ conn.remoteConn = "closed"
            /\ CanSend(conn))
    /\ [](conn.proxy # 0 => ErrChanLen(conn) \in 0..ErrChanCap)
    /\ Orphaned ~> (conn.pc = "Closed" /\ conn.c2s = "done" /\ conn.s2c = "done")

\* A cluster-mode relay ended with neither peer having closed (the remote
\* sent a malformed reply), the client -> server goroutine has ended as well
\* and its result is in errChan.
C38_Witness ==
    /\ conn.pc = "Closed"
    /\ conn.proxy # 0
    /\ P.isClusterMode
    /\ ~conn.clientEOF /\ ~conn.remoteEOF
    /\ conn.c2s = "done" /\ conn.s2c = "done"
    /\ ErrChanLen(conn) = 1

(***************************************************************************)
(* The manager's mutex in DiscoverAndAddClusterNodes                       *)
(***************************************************************************)
\* The positions of the discovery call between a Lock and the next Unlock of
\* its own.
DiscoverHolds == disc.pc \in {"locked", "loop", "return", "panicking"}

\* A step that runs the critical section of AddProxy.
AddProxyRuns ==
    \/ Len(proxies') # Len(proxies)
    \/ mNodeMap' # mNodeMap
    \/ mTokenSource' # mTokenSource

\* C40: DiscoverAndAddClusterNodes locks the manager's mutex on entry and has
\* unlocked it as often as it has locked it on every return; the mutex is
\* held by the call exactly between its own Lock and Unlock and by
\* Manager.Shutdown exactly while that runs, so no Unlock meets an unlocked
\* mutex or frees it under another holder; the call waits for the mutex only
\* while it does not hold it, and once the topology query has returned the
\* call returns; and no AddProxy runs its critical section while
\* Manager.Shutdown runs its own.
C40_MutexDiscipline ==
    /\ [](/\ mu # "fatal"
          /\ (mu = "Discover") <=> DiscoverHolds
          /\ (mu = "Shutdown") <=> (mshut.pc = "running")
          /\ disc.pc \in {"returned", "panicked"} =>
                disc.locks = disc.unlocks /\ disc.locks = disc.i + 1)
    /\ [][AddProxyRuns => mu = "free" /\ mshut.pc # "running"]_vars
    /\ (disc.pc \notin {"idle", "locked"}) ~> (disc.pc \in {"returned", "panicked"})

\* The call has returned after two turns of its loop, one AddProxy having
\* failed, with three Lock and three Unlock calls of its own, and
\* Manager.Shutdown has run and returned beside it.
C40_Witness ==
    /\ disc.pc = "returned"
    /\ disc.i = 2
    /\ disc.addedCount = 1
    /\ disc.locks = 3 /\ disc.unlocks = 3
    /\ mshut.pc = "returned"
    /\ mu = "free"

====
